---- MODULE Spec2Model ----
(***************************************************************************)
(* Model of the iterables package: the provider registry and definition    *)
(* store of IterableService, its generate() async generator, the           *)
(* /foreach batch command with its checkpoint/restore loop, and the        *)
(* template interpolation used by /foreach.                                *)
(*                                                                         *)
(* Strings that the code inspects character by character (the /foreach     *)
(* input, templates, property paths, iterable names) are sequences of      *)
(* one-character strings.                                                  *)
(***************************************************************************)
EXTENDS Integers, Sequences, FiniteSets, TLC

\* ------------------------------------------------------------------ bounds
MaxItems == 3
MaxInputLen == 3
MaxClock == 1
MaxDepth == 2
MaxPieces == 3

\* ------------------------------------------------------- sequence helpers
Range(s) ==
  {s[i] : i \in 1..Len(s)}

\* s.substring(from - 1, to): the elements from..to (1-based, inclusive)
Slice(s, from, to) ==
  IF from > to THEN <<>> ELSE SubSeq(s, from, to)

\* index of the first element of s at or after position from that is in set
\* chars, or 0 when there is none (String.prototype.indexOf gives -1)
IndexFrom(s, from, chars) ==
  LET hits == {i \in from..Len(s) : s[i] \in chars}
  IN IF hits = {} THEN 0 ELSE CHOOSE i \in hits : \A j \in hits : i <= j

\* all sequences over set chars of length at most n
SeqsUpTo(chars, n) ==
  UNION {[1..k -> chars] : k \in 0..n}

\* ------------------------------------------------------------- JS values
\* The values a variable bag can hold: undefined, null, numbers, strings
\* and plain objects (a function from property name to value).
Undefined ==
  [t |-> "undefined"]

Null ==
  [t |-> "null"]

Num(n) ==
  [t |-> "number", n |-> n]

Str(s) ==
  [t |-> "string", s |-> s]

Bool(b) ==
  [t |-> "boolean", b |-> b]

Obj(f) ==
  [t |-> "object", f |-> f]

EmptyObj ==
  Obj([k \in {} |-> Undefined])

Digits ==
  <<"0", "1", "2", "3", "4", "5", "6", "7", "8", "9">>

RECURSIVE NatToStr(_)
NatToStr(n) ==
  IF n < 10 THEN <<Digits[n + 1]>>
  ELSE NatToStr(n \div 10) \o <<Digits[(n % 10) + 1]>>

\* String(value) for a value that is not undefined
StringOf(v) ==
  CASE v.t = "number" -> IF v.n < 0 THEN <<"-">> \o NatToStr(0 - v.n) ELSE NatToStr(v.n)
    [] v.t = "string" -> v.s
    [] v.t = "boolean" -> IF v.b THEN <<"t", "r", "u", "e">> ELSE <<"f", "a", "l", "s", "e">>
    [] v.t = "null" -> <<"n", "u", "l", "l">>
    [] v.t = "object" -> <<"[", "o", "b", "j", "e", "c", "t", " ", "O", "b", "j", "e", "c", "t", "]">>
    [] OTHER -> <<"u", "n", "d", "e", "f", "i", "n", "e", "d">>

\* the value of the canonical array index spelled by prop, or -1
IndexOfProp(prop) ==
  IF Len(prop) = 1 /\ prop[1] \in Range(Digits)
  THEN (CHOOSE d \in 1..10 : Digits[d] = prop[1]) - 1
  ELSE -1

\* current?.[prop]: undefined and null short-circuit to undefined; an object
\* yields its property; a string yields the character at a numeric index;
\* every other lookup yields undefined.
GetProp(current, prop) ==
  CASE current.t \in {"undefined", "null"} -> Undefined
    [] current.t = "object" ->
         IF prop \in DOMAIN current.f THEN current.f[prop] ELSE Undefined
    [] current.t = "string" ->
         IF IndexOfProp(prop) >= 0 /\ IndexOfProp(prop) < Len(current.s)
         THEN Str(<<current.s[IndexOfProp(prop) + 1]>>)
         ELSE Undefined
    [] OTHER -> Undefined

\* path.split('.')
RECURSIVE Split(_)
Split(path) ==
  LET dot == IndexFrom(path, 1, {"."})
  IN IF dot = 0 THEN <<path>>
     ELSE <<Slice(path, 1, dot - 1)>> \o Split(Slice(path, dot + 1, Len(path)))

RECURSIVE Reduce(_, _)
Reduce(current, props) ==
  IF props = <<>> THEN current
  ELSE Reduce(GetProp(current, Head(props)), Tail(props))

getNestedProperty_FirstOnly(obj, path) ==
  GetProp(obj, Head(Split(path)))

getNestedProperty(obj, path) ==
  Reduce(obj, Split(path))

\* ------------------------------------------------------------ interpolate
\* One attempt of /\{([^}:]+)(?::([^}]*))?\}/ at position i of template t.
\* The key runs up to the first '}' or ':'; it must be non-empty.  After a
\* ':' the default runs up to the next '}'.  Without a closing '}' there is
\* no match at i.
MatchAt(t, i) ==
  LET keyEnd == IndexFrom(t, i + 1, {"}", ":"})
      close == IF keyEnd = 0 THEN 0 ELSE IndexFrom(t, keyEnd, {"}"})
      nomatch == [ok |-> FALSE, last |-> i, key |-> <<>>, hasDefault |-> FALSE, defaultValue |-> <<>>]
  IN IF t[i] # "{" \/ keyEnd = 0 \/ keyEnd = i + 1 \/ close = 0 THEN nomatch
     ELSE [ok |-> TRUE,
           last |-> close,
           key |-> Slice(t, i + 1, keyEnd - 1),
           hasDefault |-> t[keyEnd] = ":",
           defaultValue |-> Slice(t, keyEnd + 1, close - 1)]

Replacement_Truthy(t, i, m, variables) ==
  LET value == getNestedProperty(variables, m.key)
  IN IF value \notin {Undefined, Null, Num(0), Bool(FALSE), Str(<<>>)} THEN StringOf(value)
     ELSE IF m.hasDefault /\ m.defaultValue # <<>> THEN m.defaultValue
     ELSE Slice(t, i, m.last)

Replacement_Blank(t, i, m, variables) ==
  LET value == getNestedProperty(variables, m.key)
  IN IF value # Undefined THEN StringOf(value)
     ELSE IF m.hasDefault /\ m.defaultValue # <<>> THEN m.defaultValue
     ELSE <<>>

\* the replacement callback: value !== undefined ? String(value)
\*                                               : (defaultValue || match)
Replacement(t, i, m, variables) ==
  LET value == getNestedProperty(variables, m.key)
  IN IF value # Undefined THEN StringOf(value)
     ELSE IF m.hasDefault /\ m.defaultValue # <<>> THEN m.defaultValue
     ELSE Slice(t, i, m.last)

RECURSIVE InterpolateFrom(_, _, _)
InterpolateFrom(t, i, variables) ==
  IF i > Len(t) THEN <<>>
  ELSE LET m == MatchAt(t, i)
       IN IF m.ok
          THEN Replacement(t, i, m, variables) \o InterpolateFrom(t, m.last + 1, variables)
          ELSE <<t[i]>> \o InterpolateFrom(t, i + 1, variables)

interpolate_Rescan(template, variables) ==
  InterpolateFrom(InterpolateFrom(template, 1, variables), 1, variables)

interpolate(template, variables) ==
  InterpolateFrom(template, 1, variables)

\* ------------------------------------------------------------ value sets
Names ==
  {<<"a">>, <<"b">>}

Types ==
  {"range", "flaky"}

\* provider objects: "rangeProvider" yields spec.count items and returns;
\* "failingProvider" yields spec.count items and then throws
Providers ==
  {"rangeProvider", "failingProvider"}

NoProvider ==
  "undefined"

SpecOf(n) ==
  [count |-> n]

Descriptions ==
  {Undefined, Str(<<"d">>)}

Err(kind, name, type) ==
  [kind |-> kind, name |-> name, type |-> type]

NoErr ==
  Err("none", <<>>, "")

\* ------------------------------------------------------ provider registry
\* KeyedRegistry<IterableProvider>: a map from type key to provider
EmptyRegistry ==
  [t \in Types |-> NoProvider]

register_KeepFirst(reg, type, provider) ==
  IF reg[type] # NoProvider THEN reg ELSE [reg EXCEPT ![type] = provider]

\* KeyedRegistry.register: store under the key, over whatever it held
register(reg, type, provider) ==
  [reg EXCEPT ![type] = provider]

getItemByName(reg, type) ==
  IF type \in DOMAIN reg THEN reg[type] ELSE NoProvider

\* ------------------------------------------------------- definition store
\* IterableState.iterables: a Map, i.e. records in insertion order, at most
\* one per name
StoredIterable(name, type, spec, description, createdAt, updatedAt) ==
  [name |-> name, type |-> type, spec |-> spec, description |-> description,
   createdAt |-> createdAt, updatedAt |-> updatedAt]

MapHas(its, name) ==
  \E i \in 1..Len(its) : its[i].name = name

MapIndex(its, name) ==
  CHOOSE i \in 1..Len(its) : its[i].name = name

\* Map.prototype.get: the record, or undefined
MapGet(its, name) ==
  IF MapHas(its, name) THEN [found |-> TRUE, rec |-> its[MapIndex(its, name)]]
  ELSE [found |-> FALSE]

MapSet_Append(its, name, rec) ==
  Append(its, rec)

MapSet_MoveToEnd(its, name, rec) ==
  Append(SelectSeq(its, LAMBDA r : r.name # name), rec)

\* Map.prototype.set: replace in place, or append
MapSet(its, name, rec) ==
  IF MapHas(its, name) THEN [its EXCEPT ![MapIndex(its, name)] = rec]
  ELSE Append(its, rec)

MapDelete_Truncate(its, name) ==
  IF MapHas(its, name) THEN Slice(its, 1, MapIndex(its, name) - 1) ELSE its

\* Map.prototype.delete
MapDelete(its, name) ==
  IF MapHas(its, name)
  THEN Slice(its, 1, MapIndex(its, name) - 1) \o Slice(its, MapIndex(its, name) + 1, Len(its))
  ELSE its

define_NoOverwrite(its, reg, clock, name, type, spec, description, agentPassed) ==
  IF getItemByName(reg, type) = NoProvider
  THEN [iterables |-> its, result |-> "threw", err |-> Err("UnknownIterableType", <<>>, type)]
  ELSE IF ~agentPassed
  THEN [iterables |-> its, result |-> "threw", err |-> Err("TypeError", <<>>, "")]
  ELSE [iterables |-> IF MapHas(its, name) THEN its
                      ELSE MapSet(its, name, StoredIterable(name, type, spec, description, clock, clock)),
        result |-> "ok", err |-> NoErr]

define_StoreFirst(its, reg, clock, name, type, spec, description, agentPassed) ==
  IF ~agentPassed
  THEN [iterables |-> its, result |-> "threw", err |-> Err("TypeError", <<>>, "")]
  ELSE IF getItemByName(reg, type) = NoProvider
  THEN [iterables |-> MapSet(its, name, StoredIterable(name, type, spec, description, clock, clock)),
        result |-> "threw", err |-> Err("UnknownIterableType", <<>>, type)]
  ELSE [iterables |-> MapSet(its, name, StoredIterable(name, type, spec, description, clock, clock)),
        result |-> "ok", err |-> NoErr]

define_NoTypeCheck(its, reg, clock, name, type, spec, description, agentPassed) ==
  IF ~agentPassed
  THEN [iterables |-> its, result |-> "threw", err |-> Err("TypeError", <<>>, "")]
  ELSE [iterables |-> MapSet(its, name, StoredIterable(name, type, spec, description, clock, clock)),
        result |-> "ok", err |-> NoErr]

define_KeepCreated(its, reg, clock, name, type, spec, description, agentPassed) ==
  IF getItemByName(reg, type) = NoProvider
  THEN [iterables |-> its, result |-> "threw", err |-> Err("UnknownIterableType", <<>>, type)]
  ELSE IF ~agentPassed
  THEN [iterables |-> its, result |-> "threw", err |-> Err("TypeError", <<>>, "")]
  ELSE [iterables |-> MapSet(its, name,
                             StoredIterable(name, type, spec, description,
                                            IF MapHas(its, name) THEN MapGet(its, name).rec.createdAt
                                            ELSE clock,
                                            clock)),
        result |-> "ok", err |-> NoErr]

\* IterableService.define: the new store and the outcome.  agentPassed is
\* FALSE for a call that leaves the fifth parameter (agent) undefined.
define(its, reg, clock, name, type, spec, description, agentPassed) ==
  IF getItemByName(reg, type) = NoProvider
  THEN [iterables |-> its, result |-> "threw", err |-> Err("UnknownIterableType", <<>>, type)]
  ELSE IF ~agentPassed
  THEN [iterables |-> its, result |-> "threw", err |-> Err("TypeError", <<>>, "")]
  ELSE [iterables |-> MapSet(its, name, StoredIterable(name, type, spec, description, clock, clock)),
        result |-> "ok", err |-> NoErr]

\* IterableService.get
get(its, name) ==
  MapGet(its, name)

\* IterableService.list
list(its) ==
  its

delete_NoCheck(its, name) ==
  [iterables |-> MapDelete(its, name), result |-> TRUE]

\* IterableService.delete: the new store and the returned boolean
delete(its, name) ==
  IF ~MapHas(its, name) THEN [iterables |-> its, result |-> FALSE]
  ELSE [iterables |-> MapDelete(its, name), result |-> TRUE]

\* ------------------------------------------------------ state persistence
\* A Date object; in the store a timestamp is the instant itself, in
\* milliseconds since the epoch, and -1 stands for an Invalid Date.
DateObj(ms) ==
  [t |-> "date", ms |-> ms]

InvalidDate ==
  -1

\* Date.prototype.getTime of the epoch
Epoch ==
  0

\* three digits, zero-padded
Pad3(n) ==
  <<Digits[(n \div 100) + 1], Digits[((n \div 10) % 10) + 1], Digits[(n % 10) + 1]>>

IsoPrefix ==
  <<"1", "9", "7", "0", "-", "0", "1", "-", "0", "1", "T",
    "0", "0", ":", "0", "0", ":", "0", "0", ".">>

\* Date.prototype.toISOString for an instant within the first second
toISOString(ms) ==
  IsoPrefix \o Pad3(ms) \o <<"Z">>

DigitValue(ch) ==
  (CHOOSE d \in 1..10 : Digits[d] = ch) - 1

\* Date.parse of a string: the instant an ISO string of the first second
\* spells, and NaN for any other text
DateParse(text) ==
  IF /\ Len(text) = Len(IsoPrefix) + 4
     /\ SubSeq(text, 1, Len(IsoPrefix)) = IsoPrefix
     /\ text[Len(text)] = "Z"
     /\ \A k \in 1..3 : text[Len(IsoPrefix) + k] \in Range(Digits)
  THEN 100 * DigitValue(text[Len(IsoPrefix) + 1])
         + 10 * DigitValue(text[Len(IsoPrefix) + 2])
         + DigitValue(text[Len(IsoPrefix) + 3])
  ELSE InvalidDate

\* new Date(x): a copy of a Date, the parse of a string, the instant a
\* number gives, the epoch for null, and an Invalid Date for undefined
NewDate(x) ==
  CASE x.t = "date" -> x.ms
    [] x.t = "string" -> DateParse(x.s)
    [] x.t = "number" -> x.n
    [] x.t = "null" -> Epoch
    [] OTHER -> InvalidDate

\* IterableState.reset
reset_Clear(its, what) ==
  <<>>

reset(its, what) ==
  its

\* IterableState.serialize: the stored records, in the map's order
serialize(its) ==
  [i \in 1..Len(its) |-> [its[i] EXCEPT !.createdAt = DateObj(@), !.updatedAt = DateObj(@)]]

\* JSON.parse(JSON.stringify(data)): a Date becomes its ISO string
jsonRoundTrip(records) ==
  [i \in 1..Len(records) |->
     [records[i] EXCEPT !.createdAt = Str(toISOString(@.ms)),
                        !.updatedAt = Str(toISOString(@.ms))]]

\* {...i, createdAt: new Date(i.createdAt), updatedAt: new Date(i.updatedAt)}
Revive(i) ==
  [i EXCEPT !.createdAt = NewDate(@), !.updatedAt = NewDate(@)]

\* new Map(entries): each entry set in turn
RECURSIVE MapOf(_, _)
MapOf(its, entries) ==
  IF entries = <<>> THEN its
  ELSE MapOf(MapSet(its, Head(entries).key, Head(entries).value), Tail(entries))

deserialize_FlatSpec(data) ==
  MapOf(<<>>, [k \in 1..Len(IF data.listed THEN data.iterables ELSE <<>>) |->
                 [key |-> data.iterables[k].name,
                  value |-> [Revive(data.iterables[k]) EXCEPT !.spec = SpecOf(@.count)]]])

deserialize_OneStamp(data) ==
  MapOf(<<>>, [k \in 1..Len(IF data.listed THEN data.iterables ELSE <<>>) |->
                 [key |-> data.iterables[k].name,
                  value |-> [Revive(data.iterables[k]) EXCEPT
                               !.updatedAt = NewDate(data.iterables[k].createdAt)]]])

\* IterableState.deserialize: the map built from data.iterables || []
deserialize(data) ==
  MapOf(<<>>, [k \in 1..Len(IF data.listed THEN data.iterables ELSE <<>>) |->
                 [key |-> data.iterables[k].name, value |-> Revive(data.iterables[k])]])

\* ------------------------------------------------------ /iterable command
\* the record slot of an output line that shows no record
NoRec ==
  StoredIterable(<<>>, "", SpecOf(0), Undefined, 0, 0)

\* agent.errorLine / agent.infoLine: the message, the name it carries and
\* the record whose field it prints
CmdLine(level, msg, name, rec) ==
  [level |-> level, msg |-> msg, name |-> name, rec |-> rec]

\* a description that is neither undefined nor the empty string
Truthy(v) ==
  v.t = "string" /\ v.s # <<>>

\* case "show": args are the words after the operation
commandShow(its, args) ==
  IF args = <<>>
  THEN [iterables |-> its, out |-> <<CmdLine("error", "UsageShow", <<>>, NoRec)>>]
  ELSE LET iterable == get(its, args[1])
       IN IF ~iterable.found
          THEN [iterables |-> its,
                out |-> <<CmdLine("error", "IterableNotFound", args[1], NoRec)>>]
          ELSE [iterables |-> its,
                out |-> <<CmdLine("info", "Iterable", iterable.rec.name, iterable.rec),
                          CmdLine("info", "Type", <<>>, iterable.rec),
                          CmdLine("info", "Spec", <<>>, iterable.rec)>>
                        \o (IF Truthy(iterable.rec.description)
                            THEN <<CmdLine("info", "Description", <<>>, iterable.rec)>>
                            ELSE <<>>)
                        \o <<CmdLine("info", "Created", <<>>, iterable.rec),
                             CmdLine("info", "Updated", <<>>, iterable.rec)>>]

commandDelete_AlwaysDeleted(its, args) ==
  IF args = <<>>
  THEN [iterables |-> its, out |-> <<CmdLine("error", "UsageDelete", <<>>, NoRec)>>]
  ELSE [iterables |-> delete(its, args[1]).iterables,
        out |-> <<CmdLine("info", "Deleted", args[1], NoRec)>>]

\* case "delete"
commandDelete(its, args) ==
  IF args = <<>>
  THEN [iterables |-> its, out |-> <<CmdLine("error", "UsageDelete", <<>>, NoRec)>>]
  ELSE LET deleted == delete(its, args[1])
       IN [iterables |-> deleted.iterables,
           out |-> IF deleted.result
                   THEN <<CmdLine("info", "Deleted", args[1], NoRec)>>
                   ELSE <<CmdLine("error", "IterableNotFound", args[1], NoRec)>>]

\* ------------------------------------------------------------- providers
Item(value, variables) ==
  [value |-> value, variables |-> variables]

NoItem ==
  Item(Undefined, EmptyObj)

\* the k-th item (from 0) a provider yields for a spec
ProviderItem(provider, spec, k) ==
  Item(Num(k), Obj((<<"i">> :> Num(k))))

\* one next() on the generator returned by provider.generate(spec), which
\* has yielded pos items so far
ProviderNext(provider, spec, pos) ==
  IF pos < spec.count
  THEN [kind |-> "item", item |-> ProviderItem(provider, spec, pos), err |-> NoErr]
  ELSE IF provider = "failingProvider"
  THEN [kind |-> "throw", item |-> NoItem, err |-> Err("GenerationFailed", <<>>, "")]
  ELSE [kind |-> "done", item |-> NoItem, err |-> NoErr]

\* ------------------------------------------------ IterableService.generate
\* The generator object: created suspended at the start of the body; after
\* the first next() it delegates to the provider's generator (yield*); it
\* is completed after a return or a throw.
Generator(st, name, provider, spec, pos) ==
  [st |-> st, name |-> name, provider |-> provider, spec |-> spec, pos |-> pos]

NoGenerator ==
  Generator("none", <<>>, NoProvider, SpecOf(0), 0)

generate(name) ==
  Generator("suspendedStart", name, NoProvider, SpecOf(0), 0)

Completed ==
  Generator("completed", <<>>, NoProvider, SpecOf(0), 0)

\* for await (const item of provider.generate(spec, agent)): what a direct
\* consumer of the provider receives from position pos on
RECURSIVE ProviderRunFrom(_, _, _)
ProviderRunFrom(provider, spec, pos) ==
  LET r == ProviderNext(provider, spec, pos)
  IN IF r.kind = "item"
     THEN LET rest == ProviderRunFrom(provider, spec, pos + 1)
          IN [rest EXCEPT !.items = <<r.item>> \o @]
     ELSE [items |-> <<>>, end |-> r.kind, err |-> r.err]

ProviderRun(provider, spec) ==
  ProviderRunFrom(provider, spec, 0)

Delegate_WrapError(provider, spec, pos, calls) ==
  LET r == ProviderNext(provider, spec, pos)
  IN [gen |-> IF r.kind = "item" THEN Generator("delegating", <<>>, provider, spec, pos + 1)
              ELSE Completed,
      kind |-> r.kind, item |-> r.item,
      err |-> IF r.kind = "throw" THEN Err("ProviderNotFound", <<>>, r.err.kind) ELSE r.err,
      calls |-> calls]

\* yield* provider.generate(spec): forward one next() to the provider
Delegate(provider, spec, pos, calls) ==
  LET r == ProviderNext(provider, spec, pos)
  IN [gen |-> IF r.kind = "item" THEN Generator("delegating", <<>>, provider, spec, pos + 1)
              ELSE Completed,
      kind |-> r.kind, item |-> r.item, err |-> r.err, calls |-> calls]

GenNext_OrphanAsMissing(g, its, reg) ==
  IF g.st = "suspendedStart"
  THEN LET iterable == get(its, g.name)
       IN IF ~iterable.found \/ getItemByName(reg, iterable.rec.type) = NoProvider
          THEN [gen |-> Completed, kind |-> "throw", item |-> NoItem,
                err |-> Err("IterableNotFound", g.name, ""), calls |-> <<>>]
          ELSE Delegate(getItemByName(reg, iterable.rec.type), iterable.rec.spec, 0,
                        <<[provider |-> getItemByName(reg, iterable.rec.type),
                           spec |-> iterable.rec.spec]>>)
  ELSE IF g.st = "delegating"
  THEN Delegate(g.provider, g.spec, g.pos, <<>>)
  ELSE [gen |-> Completed, kind |-> "done", item |-> NoItem, err |-> NoErr, calls |-> <<>>]

GenNext_IgnoreMissing(g, its, reg) ==
  IF g.st = "suspendedStart"
  THEN LET iterable == get(its, g.name)
       IN IF ~iterable.found
          THEN [gen |-> Completed, kind |-> "done", item |-> NoItem, err |-> NoErr, calls |-> <<>>]
          ELSE IF getItemByName(reg, iterable.rec.type) = NoProvider
          THEN [gen |-> Completed, kind |-> "throw", item |-> NoItem,
                err |-> Err("ProviderNotFound", <<>>, iterable.rec.type), calls |-> <<>>]
          ELSE Delegate(getItemByName(reg, iterable.rec.type), iterable.rec.spec, 0,
                        <<[provider |-> getItemByName(reg, iterable.rec.type),
                           spec |-> iterable.rec.spec]>>)
  ELSE IF g.st = "delegating"
  THEN Delegate(g.provider, g.spec, g.pos, <<>>)
  ELSE [gen |-> Completed, kind |-> "done", item |-> NoItem, err |-> NoErr, calls |-> <<>>]

\* one next() on the generator g; calls lists the provider.generate calls
\* made by this step
GenNext(g, its, reg) ==
  IF g.st = "suspendedStart"
  THEN LET iterable == get(its, g.name)
       IN IF ~iterable.found
          THEN [gen |-> Completed, kind |-> "throw", item |-> NoItem,
                err |-> Err("IterableNotFound", g.name, ""), calls |-> <<>>]
          ELSE IF getItemByName(reg, iterable.rec.type) = NoProvider
          THEN [gen |-> Completed, kind |-> "throw", item |-> NoItem,
                err |-> Err("ProviderNotFound", <<>>, iterable.rec.type), calls |-> <<>>]
          ELSE Delegate(getItemByName(reg, iterable.rec.type), iterable.rec.spec, 0,
                        <<[provider |-> getItemByName(reg, iterable.rec.type),
                           spec |-> iterable.rec.spec]>>)
  ELSE IF g.st = "delegating"
  THEN Delegate(g.provider, g.spec, g.pos, <<>>)
  ELSE [gen |-> Completed, kind |-> "done", item |-> NoItem, err |-> NoErr, calls |-> <<>>]

\* --------------------------------------------------------- /foreach parse
\* characters String.prototype.trim removes
Whitespace ==
  {" ", "\t"}

Quotes ==
  {"\"", "'"}

RECURSIVE TrimStart(_)
TrimStart(s) ==
  IF s # <<>> /\ Head(s) \in Whitespace THEN TrimStart(Tail(s)) ELSE s

RECURSIVE TrimEnd(_)
TrimEnd(s) ==
  IF s # <<>> /\ s[Len(s)] \in Whitespace THEN TrimEnd(Slice(s, 1, Len(s) - 1)) ELSE s

Trim(s) ==
  TrimEnd(TrimStart(s))

\* prompt.replace(/^["']|["']$/g, ''): drop one leading quote, then one
\* trailing quote that was not already consumed as the leading one
StripQuotes(s) ==
  LET lead == s # <<>> /\ s[1] \in Quotes
      trail == Len(s) >= 2 /\ s[Len(s)] \in Quotes
  IN Slice(s, IF lead THEN 2 ELSE 1, IF trail THEN Len(s) - 1 ELSE Len(s))

ParseForeach_NoPromptCheck(remainder) ==
  LET trimmed == Trim(remainder)
      firstSpace == IndexFrom(trimmed, 1, {" "})
      usage == [ok |-> FALSE, iterableName |-> <<>>, prompt |-> <<>>]
  IN IF trimmed = <<>> THEN usage
     ELSE IF trimmed[1] # "@" THEN usage
     ELSE IF firstSpace = 0 THEN usage
     ELSE [ok |-> TRUE, iterableName |-> Slice(trimmed, 2, firstSpace - 1),
           prompt |-> StripQuotes(Trim(Slice(trimmed, firstSpace + 1, Len(trimmed))))]

\* the parse at the head of execute: ok is FALSE on every path that reports
\* the usage error and returns
ParseForeach(remainder) ==
  LET trimmed == Trim(remainder)
      firstSpace == IndexFrom(trimmed, 1, {" "})
      iterableName == Slice(trimmed, 2, firstSpace - 1)
      prompt == StripQuotes(Trim(Slice(trimmed, firstSpace + 1, Len(trimmed))))
      usage == [ok |-> FALSE, iterableName |-> <<>>, prompt |-> <<>>]
  IN IF trimmed = <<>> THEN usage
     ELSE IF trimmed[1] # "@" THEN usage
     ELSE IF firstSpace = 0 THEN usage
     ELSE IF prompt = <<>> THEN usage
     ELSE [ok |-> TRUE, iterableName |-> iterableName, prompt |-> prompt]

\* ------------------------------------------------------ execution context
\* The agent's mutable state as far as runChat can change it, and the
\* checkpoint taken from it.
CtxValues ==
  {"s0", "s1", "s2"}

NoCheckpoint ==
  [taken |-> FALSE, state |-> "s0"]

generateCheckpoint(context) ==
  [taken |-> TRUE, state |-> context]

restoreCheckpoint_Noop(context, checkpoint) ==
  context

restoreCheckpoint(context, checkpoint) ==
  checkpoint.state

\* ------------------------------------------------------- /foreach execute
Line(kind, n, err) ==
  [kind |-> kind, n |-> n, err |-> err]

NoPending ==
  [kind |-> "none", item |-> NoItem, err |-> NoErr]

IdleBatch ==
  [pc |-> "idle", remainder |-> <<>>, iterableName |-> <<>>, prompt |-> <<>>,
   checkpoint |-> NoCheckpoint, captures |-> 0, generated |-> 0, count |-> 0,
   gen |-> NoGenerator, pending |-> NoPending, yielded |-> <<>>,
   providerCalls |-> <<>>, calls |-> <<>>, out |-> <<>>, thrown |-> NoErr,
   outcomes |-> <<>>, dirtied |-> FALSE]

\* outcomes and dirtied only observe the run: outcomes[k] tells whether the
\* k-th runChat call rejected, dirtied whether a runChat changed the context

\* gen.next() as issued by the for-await loop: the generator runs at once
\* against the current store and registry, the outcome is delivered to the
\* loop when it resumes
IssueNext_Prefetch(bt, its, reg) ==
  LET r == GenNext(bt.gen, its, reg)
      one == [bt EXCEPT !.pc = "pulling",
                        !.gen = r.gen,
                        !.pending = [kind |-> r.kind, item |-> r.item, err |-> r.err],
                        !.yielded = IF r.kind = "item" THEN Append(@, r.item) ELSE @,
                        !.providerCalls = @ \o r.calls]
      ahead == GenNext(one.gen, its, reg)
  IN IF r.kind = "item" /\ ahead.kind = "item"
     THEN [one EXCEPT !.gen = ahead.gen, !.yielded = Append(@, ahead.item)]
     ELSE one

IssueNext(bt, its, reg) ==
  LET r == GenNext(bt.gen, its, reg)
  IN [bt EXCEPT !.pc = "pulling",
                !.gen = r.gen,
                !.pending = [kind |-> r.kind, item |-> r.item, err |-> r.err],
                !.yielded = IF r.kind = "item" THEN Append(@, r.item) ELSE @,
                !.providerCalls = @ \o r.calls]

\* the usage-error exits
UsageExit(bt, remainder) ==
  [bt EXCEPT !.pc = "returned", !.remainder = remainder,
             !.out = Append(@, Line("usage", 0, NoErr))]

\* from the checkpoint up to the first gen.next()
EnterLoop(bt, remainder, parsed, context, its, reg) ==
  IssueNext([bt EXCEPT !.remainder = remainder,
                       !.iterableName = parsed.iterableName,
                       !.prompt = parsed.prompt,
                       !.checkpoint = generateCheckpoint(context),
                       !.captures = @ + 1,
                       !.generated = @ + 1,
                       !.count = 0,
                       !.gen = generate(parsed.iterableName)],
            its, reg)

LoopBody_RawPrompt(bt, item, context) ==
  [bt EXCEPT !.pc = "chat",
             !.pending = NoPending,
             !.count = @ + 1,
             !.out = Append(@, Line("processing", bt.count + 1, NoErr)),
             !.calls = Append(@, [input |-> bt.prompt, context |-> context])]

LoopBody_Recapture(bt, item, context) ==
  [bt EXCEPT !.pc = "chat",
             !.pending = NoPending,
             !.count = @ + 1,
             !.checkpoint = generateCheckpoint(context),
             !.captures = @ + 1,
             !.out = Append(@, Line("processing", bt.count + 1, NoErr)),
             !.calls = Append(@, [input |-> interpolate(bt.prompt, item.variables),
                                  context |-> context])]

\* the loop body up to the call of runChat, which runs against context
LoopBody(bt, item, context) ==
  [bt EXCEPT !.pc = "chat",
             !.pending = NoPending,
             !.count = @ + 1,
             !.out = Append(@, Line("processing", bt.count + 1, NoErr)),
             !.calls = Append(@, [input |-> interpolate(bt.prompt, item.variables),
                                  context |-> context])]

\* the catch clause around runChat
CatchChat(bt, failed, err) ==
  IF failed THEN [bt EXCEPT !.out = Append(@, Line("itemError", bt.count, err))]
  ELSE bt

\* the loop from the settling of runChat to the next gen.next()
AfterChat_Abort(bt, failed, err, its, reg) ==
  IF failed THEN [bt EXCEPT !.pc = "threw", !.thrown = err]
  ELSE IssueNext(bt, its, reg)

AfterChat(bt, failed, err, its, reg) ==
  IssueNext(CatchChat(bt, failed, err), its, reg)

RestoreAfterItem_Skip(context, checkpoint) ==
  context

\* the context after the restore that ends the loop body
RestoreAfterItem(context, checkpoint) ==
  restoreCheckpoint(context, checkpoint)

RestoreFinally_Skip(context, checkpoint) ==
  context

\* the context after the finally block
RestoreFinally(context, checkpoint) ==
  restoreCheckpoint(context, checkpoint)

LoopDone_CountSuccesses(bt) ==
  [bt EXCEPT !.pc = "returned", !.pending = NoPending,
             !.out = Append(@, Line("processed",
                                    Cardinality({k \in 1..Len(bt.outcomes) : ~bt.outcomes[k]}),
                                    NoErr))]

LoopDone_Stay(bt) ==
  bt

\* normal loop exit
LoopDone(bt) ==
  [bt EXCEPT !.pc = "returned", !.pending = NoPending,
             !.out = Append(@, Line("processed", bt.count, NoErr))]

LoopThrow_Swallow(bt, err) ==
  LoopDone(bt)

\* a throw out of gen.next() leaves execute through the finally block
LoopThrow(bt, err) ==
  [bt EXCEPT !.pc = "threw", !.pending = NoPending, !.thrown = err]

\* ------------------------------------------------------------------ state
VARIABLES
  providers,   \* IterableService.providers
  iterables,   \* IterableState.iterables of the agent
  now,         \* the clock read by new Date()
  lastOp,      \* the last define or delete call and its outcome
  defined,     \* per name, the arguments of the last successful define
               \* that no delete call has followed, and the rank of the
               \* name among the live names by the define that made it live
  consumers,   \* for-await loops over generate(), as in the tests
  context,     \* the agent state that runChat changes
  batch,       \* the /foreach executions
  probe,       \* one application of interpolate: its arguments and result
  saved        \* the data last returned by IterableState.serialize

vars ==
  <<providers, iterables, now, lastOp, defined, consumers, context, batch, probe, saved>>

NoProbe ==
  [tokens |-> <<>>, template |-> <<>>, variables |-> EmptyObj, result |-> <<>>,
   done |-> FALSE]

\* no data yet; listed says whether data.iterables is an array, origin is
\* the store the data was taken from
NoData ==
  [present |-> FALSE, listed |-> FALSE, iterables |-> <<>>, origin |-> <<>>]

NoOp ==
  [op |-> "none", name |-> <<>>, type |-> "", result |-> "none", err |-> NoErr,
   known |-> FALSE, live |-> FALSE, prior |-> "", out |-> <<>>]

NotDefined ==
  [found |-> FALSE]

\* what a consumer's first pull found in the store and the registry
NothingSeen ==
  [found |-> FALSE, type |-> "", spec |-> SpecOf(0), provider |-> NoProvider]

NoConsumer ==
  [status |-> "none", name |-> <<>>, gen |-> NoGenerator, started |-> FALSE,
   missing |-> FALSE, seen |-> NothingSeen, items |-> <<>>, err |-> NoErr,
   providerCalls |-> <<>>]

Init ==
  /\ providers = EmptyRegistry
  /\ iterables = <<>>
  /\ now = 0
  /\ lastOp = NoOp
  /\ defined = [n \in Names |-> NotDefined]
  /\ consumers = [c \in {1} |-> NoConsumer]
  /\ context = "s0"
  /\ batch = [b \in {} |-> IdleBatch]
  /\ probe = NoProbe
  /\ saved = NoData

\* ------------------------------------------------------- service actions
\* registerProvider = this.providers.register
RegisterProvider(type, provider) ==
  /\ providers' = register(providers, type, provider)
  /\ lastOp' = [op |-> "register", name |-> <<>>, type |-> type, result |-> provider,
                err |-> NoErr, known |-> providers[type] # NoProvider, live |-> FALSE,
                prior |-> providers[type], out |-> <<>>]
  /\ UNCHANGED <<probe, saved, iterables, now, defined, consumers, context, batch>>

\* time passes between calls
Tick ==
  /\ now < MaxClock
  /\ now' = now + 1
  /\ UNCHANGED <<probe, saved, providers, iterables, lastOp, defined, consumers, context, batch>>

Define(name, type, spec, description, agentPassed) ==
  LET r == define(iterables, providers, now, name, type, spec, description, agentPassed)
  IN /\ iterables' = r.iterables
     /\ lastOp' = [op |-> "define", name |-> name, type |-> type, result |-> r.result,
                   err |-> r.err, known |-> providers[type] # NoProvider,
                   live |-> defined[name].found, prior |-> "", out |-> <<>>]
     /\ defined' = IF r.result = "ok"
                   THEN [defined EXCEPT ![name] =
                           [found |-> TRUE, type |-> type, spec |-> spec,
                            description |-> description,
                            rank |-> IF defined[name].found THEN defined[name].rank
                                     ELSE Cardinality({n \in Names : defined[n].found}) + 1]]
                   ELSE defined
     /\ UNCHANGED <<probe, saved, providers, now, consumers, context, batch>>

Delete(name) ==
  LET r == delete(iterables, name)
  IN /\ iterables' = r.iterables
     /\ lastOp' = [op |-> "delete", name |-> name, type |-> "",
                   result |-> IF r.result THEN "true" ELSE "false",
                   err |-> NoErr, known |-> FALSE, live |-> defined[name].found,
                   prior |-> "", out |-> <<>>]
     /\ defined' = [n \in Names |->
                      IF n = name THEN NotDefined
                      ELSE IF /\ defined[n].found /\ defined[name].found
                              /\ defined[n].rank > defined[name].rank
                      THEN [defined[n] EXCEPT !.rank = @ - 1]
                      ELSE defined[n]]
     /\ UNCHANGED <<probe, saved, providers, now, consumers, context, batch>>

\* const generator = service.generate(name, agent): nothing of the body runs
GenerateCall(c, name) ==
  /\ consumers' = [consumers EXCEPT ![c] = [NoConsumer EXCEPT !.status = "open",
                                                              !.name = name,
                                                              !.gen = generate(name)]]
  /\ UNCHANGED <<probe, saved, providers, iterables, now, lastOp, defined, context, batch>>

\* the stored record and the registered provider a first pull meets
Observe(name, its, reg) ==
  IF \E i \in 1..Len(its) : its[i].name = name
  THEN LET rec == its[CHOOSE i \in 1..Len(its) : its[i].name = name]
       IN [found |-> TRUE, type |-> rec.type, spec |-> rec.spec, provider |-> reg[rec.type]]
  ELSE NothingSeen

\* the consumer record after one more next() on its generator
Consume(cn, its, reg) ==
  LET r == GenNext(cn.gen, its, reg)
  IN [cn EXCEPT !.gen = r.gen,
                !.seen = IF cn.started THEN @ ELSE Observe(cn.name, its, reg),
                !.started = TRUE,
                !.missing = IF cn.started THEN @
                            ELSE ~(\E i \in 1..Len(its) : its[i].name = cn.name),
                !.status = CASE r.kind = "item" -> "open"
                             [] r.kind = "done" -> "done"
                             [] OTHER -> "threw",
                !.items = IF r.kind = "item" THEN Append(@, r.item) ELSE @,
                !.err = r.err,
                !.providerCalls = @ \o r.calls]

ConsumerNext_SharedCursor(c) ==
  /\ consumers[c].status = "open"
  /\ consumers' = [d \in DOMAIN consumers |->
                     IF consumers[d].status = "open" /\ consumers[d].name = consumers[c].name
                     THEN Consume(consumers[d], iterables, providers)
                     ELSE consumers[d]]
  /\ UNCHANGED <<probe, saved, providers, iterables, now, lastOp, defined, context, batch>>

ConsumerNext_Cleanup(c) ==
  LET after == Consume(consumers[c], iterables, providers)
  IN /\ consumers[c].status = "open"
     /\ consumers' = [consumers EXCEPT ![c] = after]
     /\ iterables' = IF after.status = "open" THEN iterables
                     ELSE MapDelete(iterables, consumers[c].name)
     /\ UNCHANGED <<probe, saved, providers, now, lastOp, defined, context, batch>>

\* one iteration of for await (const item of generator)
ConsumerNext(c) ==
  /\ consumers[c].status = "open"
  /\ consumers' = [consumers EXCEPT ![c] = Consume(consumers[c], iterables, providers)]
  /\ UNCHANGED <<probe, saved, providers, iterables, now, lastOp, defined, context, batch>>

\* the specs given to define: an empty sequence and the longest one
DefineSpecs ==
  {SpecOf(0), SpecOf(MaxItems)}

\* the definition store under register, define and delete
Next ==
  \/ \E type \in Types, provider \in Providers : RegisterProvider(type, provider)
  \/ Tick
  \/ \E name \in Names, type \in Types, spec \in DefineSpecs,
        description \in Descriptions, agentPassed \in BOOLEAN :
       Define(name, type, spec, description, agentPassed)
  \/ \E name \in Names : Delete(name)

Spec ==
  Init /\ [][Next]_vars

\* generation interleaved with register, define and delete
NextGenerate ==
  \/ \E type \in Types, provider \in Providers : RegisterProvider(type, provider)
  \/ \E name \in Names, type \in Types, spec \in DefineSpecs :
       Define(name, type, spec, Undefined, TRUE)
  \/ \E name \in Names : Delete(name)
  \/ \E c \in DOMAIN consumers, name \in Names : GenerateCall(c, name)
  \/ \E c \in DOMAIN consumers : ConsumerNext(c)

SpecGenerate ==
  Init /\ [][NextGenerate]_vars

\* definitions made and made again, with and without a description, and
\* generation from them
NextRedefine ==
  \/ \E type \in Types : RegisterProvider(type, "rangeProvider")
  \/ \E name \in Names, type \in Types, spec \in DefineSpecs, description \in Descriptions :
       Define(name, type, spec, description, TRUE)
  \/ \E c \in DOMAIN consumers, name \in Names : GenerateCall(c, name)
  \/ \E c \in DOMAIN consumers : ConsumerNext(c)

SpecRedefine ==
  Init /\ [][NextRedefine]_vars

\* the stores a state slice can be constructed with: definitions saved by
\* an earlier session, whatever providers this session goes on to register
LoadedStores ==
  {<<>>} \cup
  {<<StoredIterable(name, type, SpecOf(n), Undefined, 0, 0)>> :
     name \in Names, type \in Types, n \in 0..MaxItems}

\* new IterableState({iterables}), then the service with an empty registry
InitLoaded ==
  /\ providers = EmptyRegistry
  /\ iterables \in LoadedStores
  /\ now = 0
  /\ lastOp = NoOp
  /\ defined = [n \in Names |->
                 IF \E i \in 1..Len(iterables) : iterables[i].name = n
                 THEN [found |-> TRUE, type |-> iterables[1].type, spec |-> iterables[1].spec,
                       description |-> iterables[1].description, rank |-> 1]
                 ELSE NotDefined]
  /\ consumers = [c \in {1} |-> NoConsumer]
  /\ context = "s0"
  /\ batch = [b \in {} |-> IdleBatch]
  /\ probe = NoProbe
  /\ saved = NoData

\* generation over a loaded store while providers are being registered
NextLoaded ==
  \/ \E type \in Types, provider \in Providers : RegisterProvider(type, provider)
  \/ \E c \in DOMAIN consumers, name \in Names : GenerateCall(c, name)
  \/ \E c \in DOMAIN consumers : ConsumerNext(c)

SpecLoaded ==
  InitLoaded /\ [][NextLoaded]_vars

\* ------------------------------------------------- persistence actions
\* a spec with values nested inside it
NestedSpec ==
  [count |-> 1, nested |-> [deep |-> [array |-> <<"x", "y">>, simple |-> "v"]]]

\* the stores a state slice is constructed with: a record of a, with any
\* pair of timestamps, and a record of b, alone or together in either order
PersistStores ==
  LET as == {StoredIterable(<<"a">>, type, spec, Str(<<"d">>), c, u) :
               type \in Types, spec \in {SpecOf(0), NestedSpec},
               c \in 0..MaxClock, u \in 0..MaxClock}
      b == StoredIterable(<<"b">>, "flaky", SpecOf(MaxItems), Undefined, MaxClock, 0)
  IN {<<>>, <<b>>} \cup {<<a>> : a \in as} \cup {<<a, b>> : a \in as} \cup {<<b, a>> : a \in as}

\* per name, what the store holds for it
DefinedFor(its) ==
  [n \in Names |->
     IF MapHas(its, n)
     THEN [found |-> TRUE, type |-> MapGet(its, n).rec.type, spec |-> MapGet(its, n).rec.spec,
           description |-> MapGet(its, n).rec.description, rank |-> MapIndex(its, n)]
     ELSE NotDefined]

\* the arrays of ResetWhat given to reset
ResetWhats ==
  {<<>>, <<"chat">>, <<"chat", "history">>}

\* data whose iterables property is missing or null
NoList ==
  [present |-> TRUE, listed |-> FALSE, iterables |-> <<>>, origin |-> <<>>]

InitPersist ==
  /\ providers = [t \in Types |-> "rangeProvider"]
  /\ iterables \in PersistStores
  /\ now = 0
  /\ lastOp = NoOp
  /\ defined = DefinedFor(iterables)
  /\ consumers = [c \in {} |-> NoConsumer]
  /\ context = "s0"
  /\ batch = [b \in {} |-> IdleBatch]
  /\ probe = NoProbe
  /\ saved = NoData

\* const data = state.serialize()
Serialize ==
  /\ saved' = [present |-> TRUE, listed |-> TRUE, iterables |-> serialize(iterables),
               origin |-> iterables]
  /\ lastOp' = [NoOp EXCEPT !.op = "serialize"]
  /\ UNCHANGED <<providers, iterables, now, defined, consumers, context, batch, probe>>

\* the data written out as JSON and read back
Stringify ==
  /\ saved.present /\ saved.listed
  /\ \A i \in 1..Len(saved.iterables) : saved.iterables[i].createdAt.t = "date"
  /\ saved' = [saved EXCEPT !.iterables = jsonRoundTrip(@)]
  /\ lastOp' = [NoOp EXCEPT !.op = "stringify"]
  /\ UNCHANGED <<providers, iterables, now, defined, consumers, context, batch, probe>>

\* data that another state slice serialized and storage kept as JSON
Receive(its) ==
  /\ saved' = [present |-> TRUE, listed |-> TRUE,
               iterables |-> jsonRoundTrip(serialize(its)), origin |-> its]
  /\ lastOp' = [NoOp EXCEPT !.op = "receive"]
  /\ UNCHANGED <<providers, iterables, now, defined, consumers, context, batch, probe>>

\* the names of the records of a list
NamesOf(records) ==
  {records[i].name : i \in 1..Len(records)}

Deserialize_Merge(data) ==
  /\ data.present
  /\ iterables' = MapOf(iterables, [k \in 1..Len(deserialize(data)) |->
                                      [key |-> deserialize(data)[k].name,
                                       value |-> deserialize(data)[k]]])
  /\ defined' = DefinedFor(iterables')
  /\ lastOp' = [NoOp EXCEPT !.op = "deserialize",
                            !.result = IF data.listed THEN "saved" ELSE "nolist",
                            !.known = ~(NamesOf(iterables) \subseteq NamesOf(data.iterables))]
  /\ UNCHANGED <<providers, now, consumers, context, batch, probe, saved>>

\* state.deserialize(data); known says whether the store held a name that
\* the data does not
Deserialize(data) ==
  /\ data.present
  /\ iterables' = deserialize(data)
  /\ defined' = DefinedFor(iterables')
  /\ lastOp' = [NoOp EXCEPT !.op = "deserialize",
                            !.result = IF data.listed THEN "saved" ELSE "nolist",
                            !.known = ~(NamesOf(iterables) \subseteq NamesOf(data.iterables))]
  /\ UNCHANGED <<providers, now, consumers, context, batch, probe, saved>>

\* state.reset(what)
Reset(what) ==
  /\ iterables' = reset(iterables, what)
  /\ defined' = DefinedFor(iterables')
  /\ lastOp' = [NoOp EXCEPT !.op = "reset", !.name = what]
  /\ UNCHANGED <<providers, now, consumers, context, batch, probe, saved>>

\* the state slice saved, restored and reset while definitions are deleted
NextPersist ==
  \/ Serialize
  \/ Stringify
  \/ \E its \in {st \in PersistStores : Len(st) = 0 \/ st[1].name = <<"b">>} : Receive(its)
  \/ Deserialize(saved)
  \/ Deserialize(NoList)
  \/ \E what \in ResetWhats : Reset(what)
  \/ \E name \in Names : Delete(name)

SpecPersist ==
  InitPersist /\ [][NextPersist]_vars

\* ------------------------------------------------- concurrent generation
\* two definitions in the store, a of type range and b of either type and
\* either length, every type with a provider, and two consumers
InitConcurrent ==
  /\ providers \in [Types -> Providers]
  /\ iterables \in {<<StoredIterable(<<"a">>, "range", SpecOf(MaxItems), Undefined, 0, 0),
                       StoredIterable(<<"b">>, type, spec, Undefined, 0, 0)>> :
                       type \in Types, spec \in DefineSpecs}
  /\ now = 0
  /\ lastOp = NoOp
  /\ defined = DefinedFor(iterables)
  /\ consumers = [c \in {1, 2} |-> NoConsumer]
  /\ context = "s0"
  /\ batch = [b \in {} |-> IdleBatch]
  /\ probe = NoProbe
  /\ saved = NoData

\* generators created and pulled in any interleaving
NextConcurrent ==
  \/ \E c \in DOMAIN consumers, name \in Names : GenerateCall(c, name)
  \/ \E c \in DOMAIN consumers : ConsumerNext(c)

SpecConcurrent ==
  InitConcurrent /\ [][NextConcurrent]_vars

\* ----------------------------------------------------- command actions
\* the words that follow the operation: none, or a name
CommandArgs ==
  SeqsUpTo(Names, 1)

\* /iterable show <name>; known says whether a name was given
CommandShow(args) ==
  LET r == commandShow(iterables, args)
  IN /\ iterables' = r.iterables
     /\ lastOp' = [NoOp EXCEPT !.op = "show", !.known = args # <<>>,
                               !.name = IF args = <<>> THEN <<>> ELSE args[1],
                               !.out = r.out]
     /\ UNCHANGED <<probe, saved, providers, now, defined, consumers, context, batch>>

\* /iterable delete <name>
CommandDelete(args) ==
  LET r == commandDelete(iterables, args)
  IN /\ iterables' = r.iterables
     /\ lastOp' = [NoOp EXCEPT !.op = "cmdDelete", !.known = args # <<>>,
                               !.name = IF args = <<>> THEN <<>> ELSE args[1],
                               !.out = r.out]
     /\ defined' = DefinedFor(iterables')
     /\ UNCHANGED <<probe, saved, providers, now, consumers, context, batch>>

\* show and delete commands over a store of saved definitions
NextCommand ==
  \/ \E args \in CommandArgs : CommandShow(args)
  \/ \E args \in CommandArgs : CommandDelete(args)

SpecCommand ==
  InitPersist /\ [][NextCommand]_vars

\* --------------------------------------------------- interpolate applied
\* property names used in keys and in variable bags
Segments ==
  {<<"a">>, <<"b">>}

\* the segment lists of the dotted keys: one to MaxDepth segments
KeyPaths ==
  UNION {[1..d -> Segments] : d \in 1..MaxDepth}

\* segs.join('.')
RECURSIVE Join(_)
Join(segs) ==
  IF Len(segs) = 1 THEN segs[1]
  ELSE segs[1] \o <<".">> \o Join(Tail(segs))

\* the default texts written after the first ':' of a token
DefaultTexts ==
  {<<>>, <<"z">>, <<":", "z">>}

\* a token {key} or {key:default}
Tokens ==
  {[segs |-> k, hasDefault |-> FALSE, defaultValue |-> <<>>] : k \in KeyPaths} \cup
  {[segs |-> k, hasDefault |-> TRUE, defaultValue |-> d] : k \in KeyPaths, d \in DefaultTexts}

\* the token as it is written in a template
TokenText(tok) ==
  <<"{">> \o Join(tok.segs)
    \o (IF tok.hasDefault THEN <<":">> \o tok.defaultValue ELSE <<>>)
    \o <<"}">>

\* templates of one token, and of two adjacent tokens inside literal text
TokenLists ==
  {<<t>> : t \in Tokens} \cup {<<t, u>> : t \in Tokens, u \in Tokens}

\* the text around pieces, one piece per token of a template
Around(pieces) ==
  IF Len(pieces) = 1 THEN pieces[1]
  ELSE <<"x">> \o pieces[1] \o pieces[2] \o <<"y">>

TemplateOf(toks) ==
  Around([k \in 1..Len(toks) |-> TokenText(toks[k])])

\* values at the leaves of a variable bag, the falsy ones among them
Leaves ==
  {Num(0), Num(5), Bool(FALSE), Str(<<>>), Null}

\* nested objects: empty, or one property holding a leaf
InnerObjects ==
  {EmptyObj} \cup {Obj(seg :> leaf) : seg \in Segments, leaf \in Leaves}

\* item.variables: a absent, a leaf or a nested object; b absent or a leaf
Bags ==
  {EmptyObj} \cup
  {Obj(<<"a">> :> v) : v \in Leaves \cup InnerObjects} \cup
  {Obj(<<"b">> :> Num(5))} \cup
  {Obj(<<"a">> :> v @@ <<"b">> :> Num(5)) : v \in Leaves \cup InnerObjects}

\* the value a dotted key denotes in a bag: the bag is walked one segment
\* at a time, and a segment that is not there makes the whole key undefined
RECURSIVE Lookup(_, _)
Lookup(v, segs) ==
  IF segs = <<>> THEN v
  ELSE IF v.t = "object" /\ Head(segs) \in DOMAIN v.f
  THEN Lookup(v.f[Head(segs)], Tail(segs))
  ELSE Undefined

\* the texts a token of the template can have turned into
PieceTexts(tok, bag) ==
  {StringOf(Lookup(bag, tok.segs)), tok.defaultValue, TokenText(tok), <<>>}

\* the ways to read the result as the template with each token replaced
Readings(p) ==
  {pieces \in [1..Len(p.tokens) -> UNION {PieceTexts(tok, p.variables) : tok \in Range(p.tokens)}] :
     /\ \A k \in 1..Len(p.tokens) : pieces[k] \in PieceTexts(p.tokens[k], p.variables)
     /\ p.result = Around(pieces)}

\* keys that go on below their first segment, by a name or by an index
PathKeys ==
  UNION {{k \in [1..d -> Segments \cup {<<"0">>}] : k[1] \in Segments} : d \in 2..MaxDepth}

\* tokens of such keys, without a default or with a non-empty one
PathTokens ==
  {[segs |-> k, hasDefault |-> FALSE, defaultValue |-> <<>>] : k \in PathKeys} \cup
  {[segs |-> k, hasDefault |-> TRUE, defaultValue |-> <<"z">>] : k \in PathKeys}

\* bags whose a is a value that is not an object, or an object holding one
PathBags ==
  LET leaves == {Num(5), Str(<<"h">>), Str(<<>>), Bool(FALSE), Null}
  IN {Obj(<<"a">> :> v) : v \in leaves} \cup
     {Obj(<<"a">> :> Obj(<<"b">> :> v)) : v \in leaves}

\* a template whose keys run through values that are not objects
InitPaths ==
  /\ providers = EmptyRegistry
  /\ iterables = <<>>
  /\ now = 0
  /\ lastOp = NoOp
  /\ defined = [n \in Names |-> NotDefined]
  /\ consumers = [c \in {} |-> NoConsumer]
  /\ context = "s0"
  /\ batch = [b \in {} |-> IdleBatch]
  /\ probe \in {[NoProbe EXCEPT !.tokens = toks, !.template = TemplateOf(toks),
                                 !.variables = bag] :
                 toks \in {<<t>> : t \in PathTokens} \cup
                          {<<t, u>> : t \in PathTokens, u \in PathTokens},
                 bag \in PathBags}
  /\ saved = NoData

\* a template and a variable bag about to be given to interpolate
InitInterpolate ==
  /\ providers = EmptyRegistry
  /\ iterables = <<>>
  /\ now = 0
  /\ lastOp = NoOp
  /\ defined = [n \in Names |-> NotDefined]
  /\ consumers = [c \in {} |-> NoConsumer]
  /\ context = "s0"
  /\ batch = [b \in {} |-> IdleBatch]
  /\ probe \in {[NoProbe EXCEPT !.tokens = toks, !.template = TemplateOf(toks),
                                 !.variables = bag] :
                 toks \in TokenLists, bag \in Bags}
  /\ saved = NoData

\* const interpolated = interpolate(template, item.variables)
Interpolate ==
  /\ ~probe.done
  /\ probe' = [probe EXCEPT !.result = interpolate(probe.template, probe.variables),
                            !.done = TRUE]
  /\ UNCHANGED <<providers, iterables, now, lastOp, defined, consumers, context, batch, saved>>

NextInterpolate ==
  Interpolate

SpecInterpolate ==
  InitInterpolate /\ [][NextInterpolate]_vars

SpecPaths ==
  InitPaths /\ [][NextInterpolate]_vars

\* ------------------------------------------- interpolate, text and tokens
\* A template written as a run of pieces, each a token or text that holds
\* no token; no piece ends inside an open brace, so the pieces are also
\* what the pattern finds.
\* defaults hold no '}': {a:{b} is a token whose default is '{b'
Pieces ==
  LET literalTexts == {<<"x">>, <<"}">>, <<"{", "}">>, <<"{", ":", "x", "}">>}
      passTokens ==
        {[segs |-> <<seg>>, hasDefault |-> FALSE, defaultValue |-> <<>>] : seg \in Segments} \cup
        {[segs |-> <<seg>>, hasDefault |-> TRUE, defaultValue |-> <<"{", "b">>] : seg \in Segments}
  IN {[literal |-> TRUE, text |-> t, segs |-> <<>>, hasDefault |-> FALSE, defaultValue |-> <<>>] :
        t \in literalTexts} \cup
     {[literal |-> FALSE, text |-> TokenText(tok), segs |-> tok.segs,
       hasDefault |-> tok.hasDefault, defaultValue |-> tok.defaultValue] : tok \in passTokens}

RECURSIVE Flatten(_)
Flatten(texts) ==
  IF texts = <<>> THEN <<>> ELSE Head(texts) \o Flatten(Tail(texts))

\* variables whose string values are themselves written like tokens
PassBags ==
  LET as == {Num(5), Str(<<"{", "b", "}">>), Str(<<"{", "a", "}">>)}
      bs == {Num(5), Str(<<"{", "a", "}">>)}
  IN {EmptyObj} \cup
     {Obj(<<"a">> :> v) : v \in as} \cup
     {Obj(<<"b">> :> w) : w \in bs} \cup
     {Obj(<<"a">> :> v @@ <<"b">> :> w) : v \in as, w \in bs}

\* what a piece stands for in the output
PieceOutput(piece, bag) ==
  IF piece.literal THEN piece.text
  ELSE IF Lookup(bag, piece.segs) # Undefined THEN StringOf(Lookup(bag, piece.segs))
  ELSE IF piece.hasDefault THEN piece.defaultValue
  ELSE piece.text

InitSinglePass ==
  /\ providers = EmptyRegistry
  /\ iterables = <<>>
  /\ now = 0
  /\ lastOp = NoOp
  /\ defined = [n \in Names |-> NotDefined]
  /\ consumers = [c \in {} |-> NoConsumer]
  /\ context = "s0"
  /\ batch = [b \in {} |-> IdleBatch]
  /\ probe \in {[NoProbe EXCEPT !.tokens = pieces,
                                 !.template = Flatten([k \in 1..Len(pieces) |-> pieces[k].text]),
                                 !.variables = bag] :
                 pieces \in UNION {[1..n -> Pieces] : n \in 1..MaxPieces}, bag \in PassBags}
  /\ saved = NoData

SpecSinglePass ==
  InitSinglePass /\ [][NextInterpolate]_vars

\* ------------------------------------------------------- /foreach actions
ChatError ==
  Err("ChatError", <<>>, "")

\* execute(remainder, agent) up to its first suspension or its return
ForeachExecute(b, remainder) ==
  LET parsed == ParseForeach(remainder)
  IN /\ batch[b].pc = "idle"
     /\ batch' = [batch EXCEPT ![b] =
                    IF ~parsed.ok THEN UsageExit(batch[b], remainder)
                    ELSE EnterLoop(batch[b], remainder, parsed, context, iterables, providers)]
     /\ UNCHANGED <<probe, saved, providers, iterables, now, lastOp, defined, consumers, context>>

\* the loop resumes with the outcome of gen.next()
ForeachResume(b) ==
  LET bt == batch[b]
  IN /\ bt.pc = "pulling"
     /\ IF bt.pending.kind = "item"
        THEN /\ batch' = [batch EXCEPT ![b] = LoopBody(bt, bt.pending.item, context)]
             /\ context' = context
        ELSE /\ batch' = [batch EXCEPT ![b] =
                            IF bt.pending.kind = "done" THEN LoopDone(bt)
                            ELSE LoopThrow(bt, bt.pending.err)]
             /\ context' = RestoreFinally(context, bt.checkpoint)
     /\ UNCHANGED <<probe, saved, providers, iterables, now, lastOp, defined, consumers>>

\* runChat changes the agent state while it runs
RunChatMutate(b, state) ==
  /\ batch[b].pc = "chat"
  /\ state # context
  /\ context' = state
  /\ batch' = [batch EXCEPT ![b].dirtied = TRUE]
  /\ UNCHANGED <<probe, saved, providers, iterables, now, lastOp, defined, consumers>>

\* runChat resolves or rejects; the loop body finishes and the loop issues
\* the next gen.next()
RunChatSettle(b, failed) ==
  LET bt == batch[b]
  IN /\ bt.pc = "chat"
     /\ context' = RestoreAfterItem(context, bt.checkpoint)
     /\ batch' = [batch EXCEPT ![b] =
                    AfterChat([bt EXCEPT !.outcomes = Append(@, failed)],
                              failed, ChatError, iterables, providers)]
     /\ UNCHANGED <<probe, saved, providers, iterables, now, lastOp, defined, consumers>>

\* ------------------------------------------------------ /foreach inputs
WellFormed ==
  LET templates == {<<"n", "=", "{", "i", "}">>,
                    <<"'", "{", "j", ":", "d", "}", "{", "i", ".", "x", "}", "'">>}
  IN {<<"@">> \o name \o <<" ">> \o template : name \in Names, template \in templates}

Remainders ==
  SeqsUpTo({"@", " ", "\t", "a", "\""}, MaxInputLen) \cup WellFormed

\* stores a session can start from: empty, or one definition (made by
\* define or loaded by deserialize)
StoreConfigs ==
  {<<>>} \cup
  {<<StoredIterable(name, type, SpecOf(n), Undefined, 0, 0)>> :
     name \in {<<"a">>, <<>>}, type \in Types, n \in 0..MaxItems}

InitForeach ==
  /\ providers \in [Types -> Providers \cup {NoProvider}]
  /\ iterables \in StoreConfigs
  /\ now = 0
  /\ lastOp = NoOp
  /\ defined = [n \in Names |-> NotDefined]
  /\ consumers = [c \in {} |-> NoConsumer]
  /\ context = "s0"
  /\ batch = [b \in {1} |-> IdleBatch]
  /\ probe = NoProbe
  /\ saved = NoData

NextForeach ==
  \/ \E b \in DOMAIN batch, remainder \in Remainders : ForeachExecute(b, remainder)
  \/ \E b \in DOMAIN batch : ForeachResume(b)
  \/ \E b \in DOMAIN batch, state \in CtxValues : RunChatMutate(b, state)
  \/ \E b \in DOMAIN batch, failed \in BOOLEAN : RunChatSettle(b, failed)

SpecForeach ==
  InitForeach /\ [][NextForeach]_vars

\* --------------------------------------------------- two /foreach at once
\* Two executions of the command on one agent: execute is async and takes
\* no lock, so the second can be started while the first is suspended in
\* gen.next() or in runChat.  Both share the agent's context.
InitTwoBatches ==
  /\ providers = [t \in Types |-> IF t = "range" THEN "rangeProvider" ELSE "failingProvider"]
  /\ iterables \in {<<StoredIterable(<<"a">>, type, SpecOf(n), Undefined, 0, 0)>> :
                       type \in Types, n \in 0..(MaxItems - 2)}
  /\ now = 0
  /\ lastOp = NoOp
  /\ defined = [n \in Names |-> NotDefined]
  /\ consumers = [c \in {} |-> NoConsumer]
  /\ context = "s0"
  /\ batch = [b \in {1, 2} |-> IdleBatch]
  /\ probe = NoProbe
  /\ saved = NoData

NextTwoBatches ==
  \/ \E b \in DOMAIN batch, remainder \in {<<"@", "a", " ">> \o <<"n", "=", "{", "i", "}">>} :
       ForeachExecute(b, remainder)
  \/ \E b \in DOMAIN batch : ForeachResume(b)
  \/ \E b \in DOMAIN batch, state \in CtxValues : RunChatMutate(b, state)
  \/ \E b \in DOMAIN batch, failed \in BOOLEAN : RunChatSettle(b, failed)

SpecTwoBatches ==
  InitTwoBatches /\ [][NextTwoBatches]_vars

\* ------------------------------------------------- /foreach run to its end
\* One batch over a stored definition, with a runner that settles every
\* call: an awaited promise that has settled resumes the function, so the
\* resumption of the loop and the settling of runChat are not put off for
\* ever.
BatchIds ==
  {1}

InitBatchFair ==
  /\ providers = [t \in Types |-> IF t = "range" THEN "rangeProvider" ELSE "failingProvider"]
  /\ iterables \in StoreConfigs
  /\ now = 0
  /\ lastOp = NoOp
  /\ defined = [n \in Names |-> NotDefined]
  /\ consumers = [c \in {} |-> NoConsumer]
  /\ context = "s0"
  /\ batch = [b \in BatchIds |-> IdleBatch]
  /\ probe = NoProbe
  /\ saved = NoData

NextBatchFair ==
  \/ \E b \in BatchIds, name \in Names :
       ForeachExecute(b, <<"@">> \o name \o <<" ">> \o <<"n", "=", "{", "i", "}">>)
  \/ \E b \in BatchIds : ForeachResume(b)
  \/ \E b \in BatchIds, state \in CtxValues : RunChatMutate(b, state)
  \/ \E b \in BatchIds, failed \in BOOLEAN : RunChatSettle(b, failed)

SpecBatchFair ==
  /\ InitBatchFair
  /\ [][NextBatchFair]_vars
  /\ WF_vars(\E b \in BatchIds : ForeachResume(b))
  /\ WF_vars(\E b \in BatchIds, failed \in BOOLEAN : RunChatSettle(b, failed))

\* ----------------------------------------------------- batch properties
\* C1: in a batch the action runner is invoked once per pulled item, with
\* the template interpolated against that item's variables, in the order the
\* provider yielded the items: the k-th call carries the k-th yielded item,
\* no item is skipped or repeated, and a batch that completes has made one
\* call per item of the definition.
OrderedInvocation ==
  \A b \in DOMAIN batch :
    LET bt == batch[b]
        awaited == IF bt.pc = "pulling" /\ bt.pending.kind = "item" THEN 1 ELSE 0
    IN /\ Len(bt.calls) + awaited = Len(bt.yielded)
       /\ \A k \in 1..Len(bt.yielded) : bt.yielded[k].value = Num(k - 1)
       /\ \A k \in 1..Len(bt.calls) :
            /\ bt.calls[k].input = interpolate(bt.prompt, bt.yielded[k].variables)
            /\ bt.prompt = <<"n", "=", "{", "i", "}">> =>
                 bt.calls[k].input = <<"n", "=">> \o NatToStr(k - 1)
       /\ (bt.pc = "returned" /\ bt.checkpoint.taken) =>
            \E i \in 1..Len(iterables) :
              /\ iterables[i].name = bt.iterableName
              /\ Len(bt.calls) = iterables[i].spec.count

OrderedInvocationWitness ==
  \E b \in DOMAIN batch :
    /\ batch[b].pc = "returned"
    /\ Len(batch[b].calls) = 3
    /\ batch[b].calls[1].input = <<"n", "=", "0">>
    /\ batch[b].calls[3].input = <<"n", "=", "2">>

\* C2: when runChat rejects on item k the error is reported once, tagged
\* with k, the batch goes on, and it ends only when the provider's sequence
\* ends: every item of the definition is still passed to runChat, and what
\* a batch throws is never the action's error.
FailureIsolation ==
  \A b \in DOMAIN batch :
    LET bt == batch[b]
        reports(k) == {j \in 1..Len(bt.out) : bt.out[j] = Line("itemError", k, ChatError)}
    IN /\ Len(bt.outcomes) = Len(bt.calls) - (IF bt.pc = "chat" THEN 1 ELSE 0)
       /\ \A k \in 1..Len(bt.outcomes) :
            Cardinality(reports(k)) = IF bt.outcomes[k] THEN 1 ELSE 0
       /\ bt.pc = "threw" => bt.thrown # ChatError
       /\ \A i \in 1..Len(iterables) :
            (/\ bt.pc \in {"returned", "threw"}
             /\ bt.checkpoint.taken
             /\ iterables[i].name = bt.iterableName
             /\ providers[iterables[i].type] # NoProvider)
            => Len(bt.calls) = iterables[i].spec.count

FailureIsolationWitness ==
  \E b \in DOMAIN batch :
    /\ batch[b].pc = "returned"
    /\ batch[b].outcomes = <<FALSE, TRUE, FALSE>>
    /\ Len(batch[b].calls) = 3

\* C3: every runChat call of a batch starts from a context equal to the
\* checkpoint taken before the loop, and whenever the loop is waiting for
\* the next item the context has been restored to that checkpoint.
IdenticalBaseline ==
  \A b \in DOMAIN batch :
    /\ \A k \in 1..Len(batch[b].calls) :
         batch[b].calls[k].context = batch[b].checkpoint.state
    /\ batch[b].pc = "pulling" => context = batch[b].checkpoint.state

IdenticalBaselineWitness ==
  \E b \in DOMAIN batch :
    /\ batch[b].pc = "chat"
    /\ batch[b].dirtied
    /\ Len(batch[b].calls) >= 3
    /\ batch[b].outcomes = <<TRUE, FALSE>>

\* C4: a batch that passed parsing and has exited, by return or by a throw
\* out of the pull, leaves the context equal to its checkpoint.
RestoredOnExit ==
  \A b \in DOMAIN batch :
    (batch[b].pc \in {"returned", "threw"} /\ batch[b].checkpoint.taken)
    => context = batch[b].checkpoint.state

RestoredOnExitWitness ==
  \E b \in DOMAIN batch :
    /\ batch[b].pc = "threw"
    /\ batch[b].dirtied
    /\ Len(batch[b].calls) >= 1

\* C5: a failure of gen.next(), on the first pull or a later one, ends the
\* batch: the step that receives it restores the checkpoint and throws that
\* same failure, with no further call of runChat, no further pull and no
\* final report, and a batch that has thrown does nothing more.
PullFailurePropagates ==
  [][\A b \in DOMAIN batch :
       LET bt == batch[b]
           found == \E i \in 1..Len(iterables) : iterables[i].name = bt.iterableName
           stored == CHOOSE r \in Range(iterables) : r.name = bt.iterableName
           raised == IF ~found THEN Err("IterableNotFound", bt.iterableName, "")
                     ELSE IF providers[stored.type] = NoProvider
                     THEN Err("ProviderNotFound", <<>>, stored.type)
                     ELSE Err("GenerationFailed", <<>>, "")
       IN /\ (bt.pc = "pulling" /\ bt.pending.kind = "throw" /\ batch'[b] # bt) =>
               /\ batch'[b].pc = "threw"
               /\ batch'[b].thrown = raised
               /\ batch'[b].gen.st = "completed"
               /\ batch'[b].calls = bt.calls
               /\ batch'[b].yielded = bt.yielded
               /\ batch'[b].out = bt.out
               /\ context' = bt.checkpoint.state
          /\ bt.pc = "threw" => batch'[b] = bt
    ]_vars

PullFailureWitness ==
  \E b \in DOMAIN batch :
    /\ batch[b].pc = "threw"
    /\ batch[b].thrown = Err("GenerationFailed", <<>>, "")
    /\ Len(batch[b].calls) = 2
    /\ batch[b].dirtied

\* C6: an input that, surrounding whitespace aside, is empty, does not begin
\* with '@', or has after the '@name' word no template (nothing, or only an
\* empty pair of quotes) gets the usage error and nothing else: no
\* checkpoint, no generate call, no runChat call, context unchanged.
UsageErrorNoSideEffect ==
  [][\A b \in DOMAIN batch :
       LET input == Trim(batch'[b].remainder)
           gap == IndexFrom(input, 1, Whitespace)
           rest == Trim(Slice(input, gap + 1, Len(input)))
           malformed == \/ input = <<>>
                        \/ input[1] # "@"
                        \/ gap = 0
                        \/ rest \in SeqsUpTo(Quotes, 2)
       IN (batch[b].pc = "idle" /\ batch'[b].pc # "idle" /\ malformed) =>
            /\ batch'[b] = [IdleBatch EXCEPT !.pc = "returned",
                                             !.remainder = batch'[b].remainder,
                                             !.out = <<Line("usage", 0, NoErr)>>]
            /\ batch'[b].captures = 0 /\ batch'[b].generated = 0
            /\ batch'[b].calls = <<>> /\ batch'[b].providerCalls = <<>>
            /\ context' = context
            /\ iterables' = iterables /\ providers' = providers
    ]_vars

UsageErrorWitness ==
  \E b \in DOMAIN batch :
    /\ batch[b].pc = "returned"
    /\ batch[b].remainder = <<"@", "a", " ">>
    /\ batch[b].out = <<Line("usage", 0, NoErr)>>
    /\ batch[b].captures = 0

\* ---------------------------------------------------- service properties
\* C7: while the last successful define(name, type, spec) has not been
\* followed by a delete of name, get(name) returns a record with that name,
\* type and spec.
DefineThenGet ==
  \A name \in Names :
    defined[name].found =>
      /\ get(iterables, name).found
      /\ get(iterables, name).rec.name = name
      /\ get(iterables, name).rec.type = defined[name].type
      /\ get(iterables, name).rec.spec = defined[name].spec

DefineThenGetWitness ==
  /\ lastOp.op = "define" /\ lastOp.result = "ok" /\ lastOp.live
  /\ lastOp.name = <<"b">>
  /\ defined[<<"b">>].found /\ defined[<<"b">>].spec = SpecOf(MaxItems)
  /\ defined[<<"a">>].found /\ defined[<<"a">>].type # defined[<<"b">>].type

\* C8: a define whose type has no registered provider throws the
\* unknown-type error naming that type and leaves the store as it was,
\* whether or not the name was already defined.
UnknownTypeRejected ==
  [][(lastOp'.op = "define" /\ ~lastOp'.known) =>
       /\ lastOp'.result = "threw"
       /\ lastOp'.err = Err("UnknownIterableType", <<>>, lastOp'.type)
       /\ iterables' = iterables
       /\ defined' = defined
    ]_vars

UnknownTypeWitness ==
  /\ lastOp.op = "define" /\ ~lastOp.known /\ lastOp.live
  /\ lastOp.err = Err("UnknownIterableType", <<>>, "flaky")
  /\ \E i \in 1..Len(iterables) : iterables[i].name = lastOp.name /\ iterables[i].type = "range"

\* C9: delete(name) returns true exactly when a successful define of name
\* has not yet been followed by a delete of name, and after the call the
\* name is not in the store.
DeleteReturnsLive ==
  lastOp.op = "delete" =>
    /\ lastOp.result = (IF lastOp.live THEN "true" ELSE "false")
    /\ ~(\E i \in 1..Len(iterables) : iterables[i].name = lastOp.name)

DeleteReturnsLiveWitness ==
  /\ lastOp.op = "delete" /\ lastOp.result = "true"
  /\ Len(iterables) = 1
  /\ iterables[1].name # lastOp.name

\* C10: when the name is not in the store at the time the generator is
\* first pulled, the consumer gets the not-found error naming it, no item,
\* and no provider is called; pulling changes neither store nor registry.
UndefinedIterableFails ==
  [][consumers' # consumers =>
       /\ iterables' = iterables
       /\ providers' = providers
       /\ \A c \in DOMAIN consumers :
            (consumers'[c].started /\ consumers'[c].missing) =>
              /\ consumers'[c].status = "threw"
              /\ consumers'[c].err = Err("IterableNotFound", consumers'[c].name, "")
              /\ consumers'[c].items = <<>>
              /\ consumers'[c].providerCalls = <<>>
    ]_vars

UndefinedIterableWitness ==
  \E c \in DOMAIN consumers :
    /\ consumers[c].status = "threw"
    /\ consumers[c].missing
    /\ consumers[c].name = <<"b">>
    /\ Len(iterables) = 1
    /\ providers["range"] # NoProvider

\* C11: when the name is in the store but its type has no registered
\* provider at the time the generator is first pulled, the consumer gets the
\* provider-not-found error naming the stored type, which is neither the
\* not-found error for that name nor the unknown-type error of define for
\* that type, and it gets no item; no provider is called.
OrphanedDefinitionFails ==
  \A c \in DOMAIN consumers :
    LET cn == consumers[c]
    IN (cn.started /\ cn.seen.found /\ cn.seen.provider = NoProvider) =>
         /\ cn.status = "threw"
         /\ cn.err = Err("ProviderNotFound", <<>>, cn.seen.type)
         /\ cn.err # Err("IterableNotFound", cn.name, "")
         /\ cn.err # Err("UnknownIterableType", <<>>, cn.seen.type)
         /\ cn.items = <<>>
         /\ cn.providerCalls = <<>>

OrphanedDefinitionWitness ==
  \E c \in DOMAIN consumers :
    /\ consumers[c].status = "threw"
    /\ consumers[c].seen.found
    /\ consumers[c].seen.type = "flaky"
    /\ consumers[c].seen.provider = NoProvider
    /\ providers["range"] # NoProvider

\* C12: when the name is in the store and its type has a provider at the
\* first pull, the consumer of generate(name) receives what a direct
\* consumer of provider.generate(definition.spec) receives: one call of the
\* provider with the stored spec, the same items in the same order, ending
\* where the provider ends, by completion or by the provider's own error
\* after the items it yielded, whatever happens to the store meanwhile.
GenerateRefinesProvider ==
  \A c \in DOMAIN consumers :
    LET cn == consumers[c]
        run == ProviderRun(cn.seen.provider, cn.seen.spec)
    IN (cn.started /\ cn.seen.found /\ cn.seen.provider # NoProvider) =>
         /\ cn.providerCalls = <<[provider |-> cn.seen.provider, spec |-> cn.seen.spec]>>
         /\ Len(cn.items) <= Len(run.items)
         /\ cn.items = SubSeq(run.items, 1, Len(cn.items))
         /\ cn.status \in {"open", "done", "threw"}
         /\ cn.status = "open" => cn.err = NoErr
         /\ cn.status = "done" =>
              cn.items = run.items /\ run.end = "done" /\ cn.err = NoErr
         /\ cn.status = "threw" =>
              cn.items = run.items /\ run.end = "throw" /\ cn.err = run.err

GenerateRefinesProviderWitness ==
  \E c \in DOMAIN consumers :
    /\ consumers[c].status = "threw"
    /\ consumers[c].seen.provider = "failingProvider"
    /\ Len(consumers[c].items) = 3
    /\ consumers[c].err = Err("GenerationFailed", <<>>, "")
    /\ iterables = <<>>

\* C13: the store never holds two records of one name; after a successful
\* define of a name, first or repeated, get(name) returns the type, spec and
\* description of the latest define and list() has exactly one record of
\* that name, carrying them; and a generator of that name first pulled
\* afterwards calls the provider of the latest type with the latest spec.
RedefineReplaces ==
  /\ [](\A name \in Names :
          LET held == {i \in 1..Len(list(iterables)) : list(iterables)[i].name = name}
          IN /\ Cardinality(held) <= 1
             /\ defined[name].found =>
                  /\ Cardinality(held) = 1
                  /\ get(iterables, name).found
                  /\ \A r \in {get(iterables, name).rec} \cup {list(iterables)[i] : i \in held} :
                       /\ r.type = defined[name].type
                       /\ r.spec = defined[name].spec
                       /\ r.description = defined[name].description)
  /\ [][\A c \in DOMAIN consumers :
          LET latest == defined[consumers'[c].name]
          IN (~consumers[c].started /\ consumers'[c].started /\ latest.found) =>
               IF providers[latest.type] = NoProvider
               THEN consumers'[c].err = Err("ProviderNotFound", <<>>, latest.type)
               ELSE consumers'[c].providerCalls =
                      <<[provider |-> providers[latest.type], spec |-> latest.spec]>>
       ]_vars

RedefineReplacesWitness ==
  /\ lastOp.op = "define" /\ lastOp.result = "ok" /\ lastOp.live
  /\ Len(iterables) = 2
  /\ iterables[1].name = lastOp.name
  /\ iterables[1].type = "flaky" /\ iterables[1].description = Str(<<"d">>)
  /\ iterables[2].type = "range"
  /\ \E c \in DOMAIN consumers :
       /\ consumers[c].name = lastOp.name
       /\ consumers[c].providerCalls =
            <<[provider |-> providers["flaky"], spec |-> SpecOf(MaxItems)]>>
       /\ Len(consumers[c].items) = 1

\* C14: registering a provider under a key, taken or not, does not fail:
\* it makes getProvider(key) return that provider and leaves the other keys
\* alone, and nothing else changes the registry; from then on a define of
\* that type succeeds and a generator first pulled calls the provider the
\* registry holds for the stored type, which is the one registered last.
LastRegistrationWins ==
  [][/\ providers' # providers => lastOp'.op = "register"
     /\ (lastOp'.op = "register" /\ (lastOp' # lastOp \/ providers' # providers)) =>
          /\ getItemByName(providers', lastOp'.type) = lastOp'.result
          /\ lastOp'.prior = getItemByName(providers, lastOp'.type)
          /\ \A t \in Types \ {lastOp'.type} :
               getItemByName(providers', t) = getItemByName(providers, t)
     /\ lastOp.op = "register" =>
          /\ getItemByName(providers, lastOp.type) = lastOp.result
          /\ (lastOp'.op = "define" /\ lastOp'.type = lastOp.type) =>
               lastOp'.result = "ok"
          /\ \A c \in DOMAIN consumers :
               (/\ ~consumers[c].started /\ consumers'[c].started
                /\ defined[consumers'[c].name].found
                /\ defined[consumers'[c].name].type = lastOp.type) =>
                 /\ consumers'[c].providerCalls # <<>>
                 /\ consumers'[c].providerCalls[1].provider = lastOp.result
    ]_vars

LastRegistrationWinsWitness ==
  /\ lastOp.op = "register" /\ lastOp.known
  /\ lastOp.type = "range"
  /\ lastOp.prior = "rangeProvider" /\ lastOp.result = "failingProvider"
  /\ \E c \in DOMAIN consumers :
       /\ consumers[c].started
       /\ consumers[c].seen.type = "range"
       /\ consumers[c].providerCalls[1].provider = "failingProvider"
       /\ consumers[c].status = "threw"
       /\ Len(consumers[c].items) = 3

\* ------------------------------------------------ interpolate properties
\* C15: the result is the template with each token replaced, where every
\* token whose dotted key denotes a value other than undefined, 0, false,
\* the empty string and null among them, is replaced by String(value),
\* whether or not the token carries a default.
DefinedValueReplaces ==
  probe.done =>
    \E pieces \in Readings(probe) : \A k \in 1..Len(probe.tokens) :
         Lookup(probe.variables, probe.tokens[k].segs) # Undefined =>
           pieces[k] = StringOf(Lookup(probe.variables, probe.tokens[k].segs))

DefinedValueReplacesWitness ==
  /\ probe.done
  /\ probe.template = <<"x", "{", "a", ".", "b", ":", "z", "}", "{", "b", "}", "y">>
  /\ probe.variables = Obj(<<"a">> :> Obj(<<"b">> :> Bool(FALSE)) @@ <<"b">> :> Num(5))
  /\ probe.result = <<"x", "f", "a", "l", "s", "e", "5", "y">>

\* C16: the result is the template with each token replaced, where
\* every token with a non-empty default whose key denotes undefined,
\* the first segment or a later one being absent, is replaced by the
\* default text exactly.
DefaultReplacesMissing ==
  probe.done =>
    \E pieces \in Readings(probe) : \A k \in 1..Len(probe.tokens) :
         (/\ Lookup(probe.variables, probe.tokens[k].segs) = Undefined
          /\ probe.tokens[k].hasDefault
          /\ probe.tokens[k].defaultValue # <<>>) =>
           pieces[k] = probe.tokens[k].defaultValue

DefaultReplacesMissingWitness ==
  /\ probe.done
  /\ probe.template = <<"{", "a", ".", "b", ":", "z", "}">>
  /\ probe.variables = Obj(<<"a">> :> EmptyObj)
  /\ probe.result = <<"z">>

\* C17: the result is the template with each token replaced, where
\* every token without a default whose key denotes undefined, a
\* nested key whose first segment is absent included, is left in the
\* result as it was written.
MissingLeftVerbatim ==
  probe.done =>
    \E pieces \in Readings(probe) : \A k \in 1..Len(probe.tokens) :
         (/\ Lookup(probe.variables, probe.tokens[k].segs) = Undefined
          /\ ~probe.tokens[k].hasDefault) =>
           pieces[k] = TokenText(probe.tokens[k])

MissingLeftVerbatimWitness ==
  /\ probe.done
  /\ probe.template = <<"x", "{", "b", ".", "a", "}", "{", "b", "}", "y">>
  /\ probe.variables = Obj(<<"a">> :> Num(5))
  /\ probe.result = probe.template

\* ------------------------------------------------ persistence properties
\* C18: after the data returned by serialize, passed on as it is or as
\* JSON, has been deserialized, the store holds exactly the names the
\* serialized store held, once each, and for each name the same type and
\* the same spec, nested values included.
RoundTripPreserves ==
  (lastOp.op = "deserialize" /\ lastOp.result = "saved") =>
    /\ Len(iterables) = Len(saved.origin)
    /\ {iterables[i].name : i \in 1..Len(iterables)}
         = {saved.origin[i].name : i \in 1..Len(saved.origin)}
    /\ \A i \in 1..Len(saved.origin) :
         LET held == get(iterables, saved.origin[i].name)
         IN /\ held.found
            /\ held.rec.type = saved.origin[i].type
            /\ held.rec.spec = saved.origin[i].spec

RoundTripPreservesWitness ==
  /\ lastOp.op = "deserialize" /\ lastOp.result = "saved"
  /\ Len(iterables) = 2
  /\ iterables[1].name = <<"b">>
  /\ iterables[2].spec = NestedSpec
  /\ saved.iterables[1].createdAt.t = "string"

\* C19: a reset, whatever its argument, leaves the store as it was.
ResetKeepsDefinitions ==
  [][lastOp'.op = "reset" => iterables' = iterables]_vars

ResetKeepsDefinitionsWitness ==
  /\ lastOp.op = "reset"
  /\ lastOp.name = <<"chat", "history">>
  /\ Len(iterables) = 2
  /\ saved.present

\* C20: after the data returned by serialize, with its timestamps as Date
\* objects or as the ISO strings JSON makes of them, has been deserialized,
\* each record's createdAt and updatedAt are valid dates of the instants
\* the serialized record had, each its own.
TimestampsSurvive ==
  (lastOp.op = "deserialize" /\ lastOp.result = "saved") =>
    \A i \in 1..Len(saved.origin) :
      \E j \in 1..Len(iterables) :
        /\ iterables[j].name = saved.origin[i].name
        /\ iterables[j].createdAt # InvalidDate
        /\ iterables[j].updatedAt # InvalidDate
        /\ iterables[j].createdAt = saved.origin[i].createdAt
        /\ iterables[j].updatedAt = saved.origin[i].updatedAt

TimestampsSurviveWitness ==
  /\ lastOp.op = "deserialize" /\ lastOp.result = "saved"
  /\ Len(iterables) = 2
  /\ iterables[1].name = <<"a">>
  /\ iterables[1].createdAt = 0 /\ iterables[1].updatedAt = 1
  /\ iterables[2].createdAt = MaxClock /\ iterables[2].updatedAt = 0
  /\ saved.iterables[1].createdAt = Str(toISOString(0))
  /\ saved.iterables[1].updatedAt = Str(toISOString(1))

\* ---------------------------------------------------- command properties
\* C21: show and delete of a name the store does not hold print the one
\* error line 'Iterable not found: @name' and leave the store as it was;
\* delete of a name the store holds removes that record and no other,
\* keeps the rest in order, and prints the one line 'Deleted iterable:
\* @name'.
CommandsReportMissing ==
  [][(lastOp'.op \in {"show", "cmdDelete"} /\ lastOp'.known) =>
       LET name == lastOp'.name
           held == {i \in 1..Len(iterables) : iterables[i].name = name}
       IN IF held = {}
          THEN /\ lastOp'.out = <<CmdLine("error", "IterableNotFound", name, NoRec)>>
               /\ iterables' = iterables
          ELSE lastOp'.op = "cmdDelete" =>
                 /\ lastOp'.out = <<CmdLine("info", "Deleted", name, NoRec)>>
                 /\ Len(iterables') = Len(iterables) - 1
                 /\ \A i \in 1..Len(iterables) :
                      i \notin held =>
                        iterables'[IF \E h \in held : h < i THEN i - 1 ELSE i] = iterables[i]
    ]_vars

CommandsReportMissingWitness ==
  /\ lastOp.op = "cmdDelete" /\ lastOp.known
  /\ lastOp.name = <<"a">>
  /\ lastOp.out = <<CmdLine("error", "IterableNotFound", <<"a">>, NoRec)>>
  /\ Len(iterables) = 1
  /\ iterables[1].name = <<"b">>

\* ------------------------------------------------- concurrency properties
\* C22: with two generators of the same service pulled in any
\* interleaving, each consumer holds at all times a prefix of the sequence
\* of the provider it called with its definition's spec, ends with the
\* whole of it, gains at most one item per pull, and a step of one
\* consumer changes nothing of the other.
InterleavedGenerations ==
  /\ [](\A c \in DOMAIN consumers :
          LET cn == consumers[c]
              own == ProviderRun(cn.seen.provider, cn.seen.spec).items
          IN (cn.started /\ cn.seen.found /\ cn.seen.provider # NoProvider) =>
               /\ Len(cn.items) <= Len(own)
               /\ \A k \in 1..Len(cn.items) : cn.items[k] = own[k]
               /\ cn.status # "open" => Len(cn.items) = Len(own))
  /\ [][\A c \in DOMAIN consumers :
          consumers'[c] # consumers[c] =>
            /\ \A d \in DOMAIN consumers \ {c} : consumers'[d] = consumers[d]
            /\ (consumers[c].started /\ consumers'[c].started) =>
                 \/ consumers'[c].items = consumers[c].items
                 \/ /\ Len(consumers'[c].items) = Len(consumers[c].items) + 1
                    /\ SubSeq(consumers'[c].items, 1, Len(consumers[c].items))
                         = consumers[c].items
       ]_vars

InterleavedGenerationsWitness ==
  /\ consumers[1].status = "done"
  /\ Len(consumers[1].items) = MaxItems
  /\ consumers[2].status = "open"
  /\ consumers[2].name = consumers[1].name
  /\ Len(consumers[2].items) = 1

DeserializeReplaces ==
  lastOp.op = "deserialize" =>
    LET given == IF lastOp.result = "saved" THEN saved.iterables ELSE <<>>
    IN /\ NamesOf(iterables) = NamesOf(given)
       /\ Len(iterables) = Cardinality(NamesOf(given))
       /\ given = <<>> => iterables = <<>>

DeserializeReplacesWitness ==
  /\ lastOp.op = "deserialize" /\ lastOp.result = "saved" /\ lastOp.known
  /\ saved.iterables = <<>>
  /\ iterables = <<>>

\* ---------------------------------------------- interpolate, more cases
\* C25: the result is the template with each token replaced, where every
\* token with an empty default, {key:}, whose key denotes undefined is
\* replaced by the empty text.
EmptyDefaultRemoves ==
  probe.done =>
    \E pieces \in Readings(probe) : \A k \in 1..Len(probe.tokens) :
         (/\ Lookup(probe.variables, probe.tokens[k].segs) = Undefined
          /\ probe.tokens[k].hasDefault
          /\ probe.tokens[k].defaultValue = <<>>) =>
           pieces[k] = <<>>

\* C26: every token whose key passes, before its last segment, through a
\* value that is a string, a number or a boolean is replaced by its default
\* when it has one, and otherwise left as it was written.
NonObjectStopsLookup ==
  probe.done =>
    \E pieces \in Readings(probe) : \A k \in 1..Len(probe.tokens) :
      LET tok == probe.tokens[k]
          stopped == \E d \in 1..(Len(tok.segs) - 1) :
                       Lookup(probe.variables, SubSeq(tok.segs, 1, d)).t
                         \in {"string", "number", "boolean"}
      IN stopped => pieces[k] = IF tok.hasDefault THEN tok.defaultValue ELSE TokenText(tok)

\* ------------------------------------------------- batch, more properties
\* C27: an input that, surrounding whitespace aside, is '@', whitespace
\* and then a template gets the usage error and nothing else: no checkpoint
\* is captured and generate is not called.
EmptyNameRejected ==
  \A b \in DOMAIN batch :
    LET bt == batch[b]
        input == Trim(bt.remainder)
    IN (/\ bt.pc # "idle"
        /\ Len(input) >= 3
        /\ input[1] = "@"
        /\ input[2] \in Whitespace) =>
         /\ Line("usage", 0, NoErr) \in Range(bt.out)
         /\ bt.captures = 0
         /\ bt.generated = 0

\* C28: a batch that passes parsing captures the checkpoint once, from the
\* context it was started in and on the step that issues the first pull; a
\* batch that fails parsing captures none; once started the checkpoint and
\* the capture count never change, and every step that ends an item or the
\* loop restores the context to that checkpoint.
CheckpointCapturedOnce ==
  [][\A b \in DOMAIN batch :
       LET bt == batch[b]
           nb == batch'[b]
       IN /\ (bt.pc = "idle" /\ nb.pc # "idle") =>
               IF ParseForeach(nb.remainder).ok
               THEN /\ nb.captures = 1
                    /\ nb.checkpoint = generateCheckpoint(context)
                    /\ context' = context
                    /\ nb.pc = "pulling"
                    /\ nb.calls = <<>>
               ELSE /\ nb.captures = 0
                    /\ ~nb.checkpoint.taken
          /\ bt.pc # "idle" =>
               /\ nb.checkpoint = bt.checkpoint
               /\ nb.captures = bt.captures
          /\ (\/ bt.pc = "chat" /\ nb.pc # "chat"
              \/ bt.pc = "pulling" /\ nb.pc \in {"returned", "threw"}) =>
               context' = bt.checkpoint.state
    ]_vars

CheckpointCapturedOnceWitness ==
  \E b \in DOMAIN batch :
    /\ batch[b].pc = "returned"
    /\ batch[b].captures = 1
    /\ batch[b].dirtied
    /\ batch[b].outcomes = <<TRUE, TRUE, FALSE>>

\* C29: the 'Processed n items' line appears at most once, as the last
\* line of a batch whose provider sequence ended normally and never in a
\* batch that threw; n is the number of items pulled, which is the number of
\* runChat calls whether they failed or not, and the number of items the
\* provider yields for the definition; when n is 0 runChat was never called.
FinalReport ==
  \A b \in DOMAIN batch :
    LET bt == batch[b]
        reports == {j \in 1..Len(bt.out) : bt.out[j].kind = "processed"}
    IN /\ Cardinality(reports) <= 1
       /\ bt.pc = "threw" => reports = {}
       /\ (bt.pc = "returned" /\ bt.checkpoint.taken) => reports # {}
       /\ \A j \in reports :
            /\ j = Len(bt.out)
            /\ bt.pc = "returned"
            /\ bt.gen.st = "completed"
            /\ bt.thrown = NoErr
            /\ bt.out[j].n = Len(bt.yielded)
            /\ bt.out[j].n = Len(bt.calls)
            /\ bt.out[j].n = Len(bt.outcomes)
            /\ bt.out[j].n = 0 => bt.calls = <<>>
            /\ \E i \in 1..Len(iterables) :
                 /\ iterables[i].name = bt.iterableName
                 /\ LET run == ProviderRun(providers[iterables[i].type], iterables[i].spec)
                    IN /\ run.end = "done"
                       /\ run.items = bt.yielded

FinalReportWitness ==
  \E b \in DOMAIN batch :
    /\ batch[b].pc = "returned"
    /\ batch[b].outcomes = <<FALSE, TRUE, TRUE>>
    /\ batch[b].out[Len(batch[b].out)] = Line("processed", 3, NoErr)

\* C30: a batch has at most one runChat call in flight and at most one
\* item pulled whose runChat has not settled; the provider has been asked
\* for no more items than the loop has received; and a step that receives
\* a new item receives exactly one, with every earlier item's runChat
\* settled and the context restored to the checkpoint.
SequentialPulls ==
  /\ [](\A b \in DOMAIN batch :
          LET bt == batch[b]
              inFlight == Len(bt.calls) - Len(bt.outcomes)
              unprocessed == Len(bt.yielded) - Len(bt.outcomes)
          IN /\ inFlight \in {0, 1}
             /\ inFlight = 1 <=> bt.pc = "chat"
             /\ unprocessed \in {0, 1}
             /\ unprocessed = 1 <=>
                  (bt.pc = "chat" \/ (bt.pc = "pulling" /\ bt.pending.kind = "item"))
             /\ bt.gen.st = "delegating" => bt.gen.pos = Len(bt.yielded))
  /\ [][\A b \in DOMAIN batch :
          LET bt == batch[b]
              nb == batch'[b]
          IN Len(nb.yielded) > Len(bt.yielded) =>
               /\ Len(nb.yielded) = Len(bt.yielded) + 1
               /\ Len(nb.outcomes) = Len(bt.yielded)
               /\ Len(nb.calls) = Len(bt.yielded)
               /\ nb.pc = "pulling"
               /\ context' = nb.checkpoint.state
      ]_vars

SequentialPullsWitness ==
  \E b \in DOMAIN batch :
    /\ batch[b].pc = "pulling"
    /\ batch[b].pending.kind = "item"
    /\ Len(batch[b].yielded) = 3
    /\ batch[b].outcomes = <<TRUE, FALSE>>
    /\ batch[b].dirtied

\* ------------------------------------------------ service, more properties
\* C31: every record of a store filled through define has createdAt equal
\* to updatedAt, and a successful define, of a new name or of a live one,
\* leaves under that name a record whose two timestamps are the time of
\* the call.
DefineStampsNow ==
  /\ [](\A i \in 1..Len(iterables) : iterables[i].createdAt = iterables[i].updatedAt)
  /\ [][(/\ lastOp'.op = "define"
         /\ lastOp'.result = "ok"
         /\ <<lastOp, iterables>>' # <<lastOp, iterables>>) =>
          /\ MapHas(iterables', lastOp'.name)
          /\ MapGet(iterables', lastOp'.name).rec.createdAt = now
          /\ MapGet(iterables', lastOp'.name).rec.updatedAt = now
      ]_vars

DefineStampsNowWitness ==
  /\ lastOp.op = "define"
  /\ lastOp.result = "ok"
  /\ lastOp.live
  /\ now = 1
  /\ MapGet(iterables, lastOp.name).rec.createdAt = 1
  /\ \E i \in 1..Len(iterables) : iterables[i].createdAt = 0

\* C32: with two batches on one context the restores give no isolation.
\* Each restore still writes the restoring batch's own checkpoint, and a
\* batch alone keeps its guarantees: a runChat call that started from a
\* context other than its batch's checkpoint, a checkpoint other than the
\* context before both batches, and a context left different from that one
\* when no batch is running, occur only when the other batch has been
\* started.  The witness is the interleaving in which they do occur.
InterleavedBatches ==
  /\ [](\A b \in DOMAIN batch :
          LET bt == batch[b]
              others == {o \in DOMAIN batch \ {b} : batch[o].pc # "idle"}
          IN /\ (\E k \in 1..Len(bt.calls) : bt.calls[k].context # bt.checkpoint.state) =>
                  others # {}
             /\ (bt.checkpoint.taken /\ bt.checkpoint.state # "s0") => others # {}
             /\ (bt.pc \in {"returned", "threw"} /\ context # "s0") => others # {})
  /\ [][\A b \in DOMAIN batch :
          (\/ batch[b].pc = "chat" /\ batch'[b].pc # "chat"
           \/ batch[b].pc = "pulling" /\ batch'[b].pc \in {"returned", "threw"}) =>
            context' = batch[b].checkpoint.state
      ]_vars

InterleavedBatchesWitness ==
  /\ \A b \in DOMAIN batch : batch[b].pc \in {"returned", "threw"}
  /\ context # "s0"
  /\ \E b \in DOMAIN batch : \E k \in 1..Len(batch[b].calls) :
       batch[b].calls[k].context # batch[b].checkpoint.state

\* C33: the result is the template with each token replaced once and
\* everything else kept: the pieces' outputs in order, where text that holds
\* no token ('x', '}', '{}', '{:x}') stands for itself and what replaces a
\* token is not read again, though it may be written like a token.
SinglePass ==
  probe.done =>
    probe.result = Flatten([k \in 1..Len(probe.tokens) |->
                              PieceOutput(probe.tokens[k], probe.variables)])

SinglePassWitness ==
  /\ probe.done
  /\ \E k \in 1..Len(probe.tokens) :
       /\ probe.tokens[k].literal
       /\ probe.tokens[k].text = <<"{", ":", "x", "}">>
  /\ \E k \in 1..Len(probe.tokens) :
       LET out == PieceOutput(probe.tokens[k], probe.variables)
       IN /\ ~probe.tokens[k].literal
          /\ out = <<"{", "b", "}">>
          /\ Lookup(probe.variables, <<<<"b">>>>) = Num(5)

\* C34: a define or delete call, whatever its outcome, leaves the registry
\* as it was and leaves every other name of the store with the record it
\* had: same type, spec, description and timestamps, or still absent.
DefineDeleteFrame ==
  [][(/\ lastOp'.op \in {"define", "delete"}
      /\ <<lastOp, iterables>>' # <<lastOp, iterables>>) =>
       /\ providers' = providers
       /\ \A n \in Names \ {lastOp'.name} : MapGet(iterables', n) = MapGet(iterables, n)
       /\ \A i \in 1..Len(iterables') : iterables'[i].name \in Names
    ]_vars

DefineDeleteFrameWitness ==
  /\ lastOp.op = "delete"
  /\ lastOp.result = "true"
  /\ lastOp.name = <<"a">>
  /\ now = 1
  /\ iterables = <<StoredIterable(<<"b">>, "flaky", SpecOf(MaxItems), Str(<<"d">>), 0, 0)>>

\* C35: a step of generation, the call of generate or a pull from the
\* generator, whether the pull yields an item, ends the sequence or throws,
\* leaves the store and the registry as they were: get, list and delete
\* answer as before for every name and the consumer's definition, if it was
\* stored, still is.
GenerateFrame ==
  [][consumers' # consumers =>
       /\ iterables' = iterables
       /\ providers' = providers
       /\ list(iterables') = list(iterables)
       /\ \A n \in Names :
            /\ get(iterables', n) = get(iterables, n)
            /\ delete(iterables', n) = delete(iterables, n)
       /\ \A c \in DOMAIN consumers :
            MapHas(iterables, consumers'[c].name) => MapHas(iterables', consumers'[c].name)
    ]_vars

GenerateFrameWitness ==
  \E c \in DOMAIN consumers :
    /\ consumers[c].status = "threw"
    /\ consumers[c].err = Err("GenerationFailed", <<>>, "")
    /\ Len(consumers[c].items) = MaxItems
    /\ get(iterables, consumers[c].name).found
    /\ get(iterables, consumers[c].name).rec.type = consumers[c].seen.type
    /\ delete(iterables, consumers[c].name).result

\* C36: in a store that started empty and was changed only by register,
\* define, delete and generation, every stored definition's type has a
\* registered provider, a registered type stays registered, and no
\* generation fails with the provider-not-found error.
TypeAlwaysRegistered ==
  /\ [](/\ \A i \in 1..Len(iterables) : getItemByName(providers, iterables[i].type) # NoProvider
        /\ \A c \in DOMAIN consumers : consumers[c].err.kind # "ProviderNotFound")
  /\ [][\A t \in Types : providers[t] # NoProvider => providers'[t] # NoProvider]_vars

TypeAlwaysRegisteredWitness ==
  /\ Len(iterables) = 2
  /\ iterables[1].type # iterables[2].type
  /\ lastOp.op = "register"
  /\ lastOp.known
  /\ lastOp.prior # lastOp.result
  /\ \E c \in DOMAIN consumers :
       /\ consumers[c].status = "done"
       /\ Len(consumers[c].items) = MaxItems

\* C37: a batch that has been started ends, by its return or by a throw;
\* one that passed parsing and returned has the final count as its last
\* line, one that threw threw a failure of generation; the items it pulled
\* are all different and each was given to runChat at most once, failed
\* calls included.
BatchTerminates ==
  /\ \A b \in BatchIds :
       (batch[b].pc # "idle") ~> (batch[b].pc \in {"returned", "threw"})
  /\ [](\A b \in BatchIds :
          LET bt == batch[b]
          IN /\ (bt.pc = "returned" /\ bt.checkpoint.taken) =>
                  bt.out[Len(bt.out)] = Line("processed", Len(bt.yielded), NoErr)
             /\ bt.pc = "threw" =>
                  bt.thrown.kind \in {"IterableNotFound", "ProviderNotFound", "GenerationFailed"}
             /\ \A j, k \in 1..Len(bt.yielded) : j # k => bt.yielded[j] # bt.yielded[k]
             /\ Len(bt.calls) <= Len(bt.yielded)
             /\ \A k \in 1..Len(bt.calls) :
                  bt.calls[k].input = interpolate(bt.prompt, bt.yielded[k].variables))

BatchTerminatesWitness ==
  \E b \in BatchIds :
    /\ batch[b].pc = "returned"
    /\ batch[b].outcomes = <<TRUE, FALSE, TRUE>>
    /\ batch[b].dirtied
    /\ Len(batch[b].calls) = MaxItems

====
